---------------------------- MODULE Spec2Model ----------------------------
(***************************************************************************)
(* Model of execution/video_editor_pipeline.py: the speech-segment         *)
(* timeline operations, the encoder profile selector, the filter graph     *)
(* builder and the pipeline orchestrator (main).                           *)
(*                                                                         *)
(* Times are exact integers counting a fixed resolution ("ticks"); the     *)
(* timeline operations only compare, add and subtract times, so they do    *)
(* not depend on the length of a tick.  Only the six-decimal rendering of  *)
(* a time in the filter graph depends on it (TicksPerMicro).               *)
(***************************************************************************)
EXTENDS Integers, Sequences, FiniteSets, TLC

\* ------------------------------------------------------------------------
\* Bounds of the model
\* ------------------------------------------------------------------------
MaxT == 8
MaxLen == 3
MaxPad == 2
MaxGap == 2
MaxDur == 9
MaxCalls == 4
MaxListing == 2
TicksPerMicro == 3
MaxMainDur == 4
MaxVadLen == 2
MaxMainGap == 1
MaxMainPad == 1
ExtraStderr == 1
MaxPieces == 3
MaxWords == 3

Max(a, b) == IF a >= b THEN a ELSE b
Min(a, b) == IF a <= b THEN a ELSE b

\* ------------------------------------------------------------------------
\* Timelines: sequences of intervals <<start, end>>
\* ------------------------------------------------------------------------
Intervals == {iv \in (0..MaxT) \X (0..MaxT) : iv[1] < iv[2]}

\* The Timeline invariant of the data model: 0 <= s < e for every interval,
\* consecutive intervals ordered and non-overlapping.
ValidTimeline(tl) ==
    /\ \A i \in 1..Len(tl) : 0 <= tl[i][1] /\ tl[i][1] < tl[i][2]
    /\ \A i \in 1..(Len(tl) - 1) :
          tl[i][2] <= tl[i + 1][1] /\ tl[i][1] < tl[i + 1][1]

\* The valid timelines of exactly n intervals over 0..MaxT.
RECURSIVE TimelinesOfLen(_)
TimelinesOfLen(n) ==
    IF n = 0 THEN {<<>>}
    ELSE UNION {{Append(q, iv) : iv \in {x \in Intervals : ValidTimeline(Append(q, x))}} :
                   q \in TimelinesOfLen(n - 1)}

Timelines == UNION {TimelinesOfLen(n) : n \in 0..MaxLen}

\* --- merge_close_segments ------------------------------------------------
\* The for loop of merge_close_segments: `merged` is the list built so far,
\* `rest` the intervals still to visit.
RECURSIVE MergeLoopStrict(_, _, _)
MergeLoopStrict(merged, rest, max_gap) ==
    IF rest = <<>> THEN merged
    ELSE LET start == Head(rest)[1]
             end == Head(rest)[2]
             prev_start == merged[Len(merged)][1]
             prev_end == merged[Len(merged)][2]
         IN IF start - prev_end < max_gap
            THEN MergeLoopStrict([merged EXCEPT ![Len(merged)] = <<prev_start, end>>],
                                 Tail(rest), max_gap)
            ELSE MergeLoopStrict(Append(merged, <<start, end>>), Tail(rest), max_gap)

RECURSIVE MergeLoopKeepEnd(_, _, _)
MergeLoopKeepEnd(merged, rest, max_gap) ==
    IF rest = <<>> THEN merged
    ELSE LET start == Head(rest)[1]
             end == Head(rest)[2]
             prev_start == merged[Len(merged)][1]
             prev_end == merged[Len(merged)][2]
         IN IF start - prev_end <= max_gap
            THEN MergeLoopKeepEnd([merged EXCEPT ![Len(merged)] = <<start, end>>],
                                  Tail(rest), max_gap)
            ELSE MergeLoopKeepEnd(Append(merged, <<start, end>>), Tail(rest), max_gap)

RECURSIVE MergeLoop(_, _, _)
MergeLoop(merged, rest, max_gap) ==
    IF rest = <<>> THEN merged
    ELSE LET start == Head(rest)[1]
             end == Head(rest)[2]
             prev_start == merged[Len(merged)][1]
             prev_end == merged[Len(merged)][2]
         IN IF start - prev_end <= max_gap
            THEN MergeLoop([merged EXCEPT ![Len(merged)] = <<prev_start, end>>],
                           Tail(rest), max_gap)
            ELSE MergeLoop(Append(merged, <<start, end>>), Tail(rest), max_gap)

\* Mutant: the gap test is strict (< instead of <=).
merge_close_segments_strict(segments, max_gap) ==
    IF segments = <<>> THEN <<>>
    ELSE MergeLoopStrict(<<segments[1]>>, Tail(segments), max_gap)

\* Mutant: a merge keeps the later interval's start instead of the group's.
merge_close_segments_keep_end(segments, max_gap) ==
    IF segments = <<>> THEN <<>>
    ELSE MergeLoopKeepEnd(<<segments[1]>>, Tail(segments), max_gap)

\* Mutant: the sweep starts from the second interval.
merge_close_segments_drop_first(segments, max_gap) ==
    IF Len(segments) <= 1 THEN <<>>
    ELSE MergeLoop(<<segments[2]>>, SubSeq(segments, 3, Len(segments)), max_gap)

merge_close_segments(segments, max_gap) ==
    IF segments = <<>> THEN <<>>
    ELSE MergeLoop(<<segments[1]>>, Tail(segments), max_gap)

\* --- add_padding ---------------------------------------------------------
\* Mutant: the padded start is not clamped at 0.
PaddedNoClamp(segments, padding_s, duration) ==
    [i \in 1..Len(segments) |->
        <<segments[i][1] - padding_s,
          Min(duration, segments[i][2] + padding_s)>>]

\* First loop of add_padding: pad and clamp every interval.
Padded(segments, padding_s, duration) ==
    [i \in 1..Len(segments) |->
        <<Max(0, segments[i][1] - padding_s),
          Min(duration, segments[i][2] + padding_s)>>]

\* Second loop of add_padding: coalesce overlaps left to right.
RECURSIVE CoalesceLoopTouch(_, _)
CoalesceLoopTouch(merged, rest) ==
    IF rest = <<>> THEN merged
    ELSE LET start == Head(rest)[1]
             end == Head(rest)[2]
             prev_start == merged[Len(merged)][1]
             prev_end == merged[Len(merged)][2]
         IN IF start < prev_end
            THEN CoalesceLoopTouch(
                     [merged EXCEPT ![Len(merged)] = <<prev_start, Max(prev_end, end)>>],
                     Tail(rest))
            ELSE CoalesceLoopTouch(Append(merged, <<start, end>>), Tail(rest))

RECURSIVE CoalesceLoop(_, _)
CoalesceLoop(merged, rest) ==
    IF rest = <<>> THEN merged
    ELSE LET start == Head(rest)[1]
             end == Head(rest)[2]
             prev_start == merged[Len(merged)][1]
             prev_end == merged[Len(merged)][2]
         IN IF start <= prev_end
            THEN CoalesceLoop(
                     [merged EXCEPT ![Len(merged)] = <<prev_start, Max(prev_end, end)>>],
                     Tail(rest))
            ELSE CoalesceLoop(Append(merged, <<start, end>>), Tail(rest))

\* Mutant: padded intervals that only touch (start = previous end) are not
\* coalesced.
add_padding_touch(segments, padding_s, duration) ==
    IF segments = <<>> THEN <<>>
    ELSE LET padded == Padded(segments, padding_s, duration)
         IN CoalesceLoopTouch(<<padded[1]>>, Tail(padded))

add_padding(segments, padding_s, duration) ==
    IF segments = <<>> THEN <<>>
    ELSE LET padded == Padded(segments, padding_s, duration)
         IN CoalesceLoop(<<padded[1]>>, Tail(padded))

\* --- the force-start-at-zero step of main --------------------------------
\* Mutant: the first interval is replaced by (0, its start).
KeepStartStepCollapse(segments, keep_start) ==
    IF keep_start /\ segments # <<>> /\ segments[1][1] > 0
    THEN [segments EXCEPT ![1] = <<0, segments[1][1]>>]
    ELSE segments

KeepStartStep(segments, keep_start) ==
    IF keep_start /\ segments # <<>> /\ segments[1][1] > 0
    THEN [segments EXCEPT ![1] = <<0, segments[1][2]>>]
    ELSE segments

\* ------------------------------------------------------------------------
\* Filter graph builder
\* ------------------------------------------------------------------------
\* A graph is the list filter_parts: one record per statement, with the port
\* labels it reads (ins) and writes (outs).  A label [v3] is <<"v", 3>>.
TransitionDurationMs == 150
XfadeOffsetStepMs == 500

\* "{t:.6f}": a time rendered with six decimals, i.e. rounded to the nearest
\* microsecond; the value is the number of microseconds printed.
Fmt6(t) == (2 * t + TicksPerMicro) \div (2 * TicksPerMicro)

\* f"[0:v]trim=start={start:.6f}:end={end:.6f},setpts=PTS-STARTPTS[v{i}]"
VideoTrim(i, start, end) ==
    [ins |-> << <<"0:v">> >>, filter |-> "trim", start |-> Fmt6(start), end |-> Fmt6(end),
     reset |-> "setpts=PTS-STARTPTS", outs |-> << <<"v", i>> >>]

\* f"[0:a]atrim=start={start:.6f}:end={end:.6f},asetpts=PTS-STARTPTS[a{i}]"
AudioTrim(i, start, end) ==
    [ins |-> << <<"0:a">> >>, filter |-> "atrim", start |-> Fmt6(start), end |-> Fmt6(end),
     reset |-> "asetpts=PTS-STARTPTS", outs |-> << <<"a", i>> >>]

\* for i, (start, end) in enumerate(segments): filter_parts.append(trim ...)
VideoTrims(segments) ==
    [k \in 1..Len(segments) |-> VideoTrim(k - 1, segments[k][1], segments[k][2])]

\* Mutant: every audio trim carries the first interval's bounds.
AudioTrimsFirstOnly(segments) ==
    [k \in 1..Len(segments) |-> AudioTrim(k - 1, segments[1][1], segments[1][2])]

AudioTrims(segments) ==
    [k \in 1..Len(segments) |-> AudioTrim(k - 1, segments[k][1], segments[k][2])]

\* Mutant: every video cross-fade stage reads the port the chain started from.
RECURSIVE XfadeLoopNoCarry(_, _, _)
XfadeLoopNoCarry(current_v, i, n) ==
    IF i >= n THEN <<>>
    ELSE LET next_v == <<"v", i>>
             out_v == IF i < n - 1 THEN <<"xv", i>> ELSE <<"outv">>
         IN << [ins |-> <<current_v, next_v>>, filter |-> "xfade", transition |-> "fade",
                duration_ms |-> TransitionDurationMs, offset_ms |-> i * XfadeOffsetStepMs,
                outs |-> <<out_v>>] >>
            \o XfadeLoopNoCarry(current_v, i + 1, n)

\* The video cross-fade loop, `for i in range(1, n)`, from iteration i on.
RECURSIVE XfadeLoop(_, _, _)
XfadeLoop(current_v, i, n) ==
    IF i >= n THEN <<>>
    ELSE LET next_v == <<"v", i>>
             out_v == IF i < n - 1 THEN <<"xv", i>> ELSE <<"outv">>
         IN << [ins |-> <<current_v, next_v>>, filter |-> "xfade", transition |-> "fade",
                duration_ms |-> TransitionDurationMs, offset_ms |-> i * XfadeOffsetStepMs,
                outs |-> <<out_v>>] >>
            \o XfadeLoop(out_v, i + 1, n)

\* Mutant: every audio cross-fade stage reads the port the chain started from.
RECURSIVE AcrossfadeLoopNoCarry(_, _, _)
AcrossfadeLoopNoCarry(current_a, i, n) ==
    IF i >= n THEN <<>>
    ELSE LET next_a == <<"a", i>>
             out_a == IF i < n - 1 THEN <<"xa", i>> ELSE <<"outa">>
         IN << [ins |-> <<current_a, next_a>>, filter |-> "acrossfade",
                duration_ms |-> TransitionDurationMs, outs |-> <<out_a>>] >>
            \o AcrossfadeLoopNoCarry(current_a, i + 1, n)

\* The audio cross-fade loop, from iteration i on.
RECURSIVE AcrossfadeLoop(_, _, _)
AcrossfadeLoop(current_a, i, n) ==
    IF i >= n THEN <<>>
    ELSE LET next_a == <<"a", i>>
             out_a == IF i < n - 1 THEN <<"xa", i>> ELSE <<"outa">>
         IN << [ins |-> <<current_a, next_a>>, filter |-> "acrossfade",
                duration_ms |-> TransitionDurationMs, outs |-> <<out_a>>] >>
            \o AcrossfadeLoop(out_a, i + 1, n)

\* Mutant: the concat statement lists all video ports, then all audio ports.
ConcatStatementGrouped(n) ==
    [ins |-> [k \in 1..(2 * n) |->
                 IF k <= n THEN <<"v", k - 1>> ELSE <<"a", k - n - 1>>],
     filter |-> "concat", n |-> n, v |-> 1, a |-> 1,
     outs |-> << <<"outv">>, <<"outa">> >>]

\* "".join(f"[v{i}][a{i}]" for i in range(n)) + f"concat=n={n}:v=1:a=1[outv][outa]"
ConcatStatement(n) ==
    [ins |-> [k \in 1..(2 * n) |->
                 IF k % 2 = 1 THEN <<"v", (k - 1) \div 2>> ELSE <<"a", (k - 2) \div 2>>],
     filter |-> "concat", n |-> n, v |-> 1, a |-> 1,
     outs |-> << <<"outv">>, <<"outa">> >>]

\* Mutant: the cross-fade path is taken for a single interval too.
build_trim_concat_filter_from_one(segments, add_transitions) ==
    LET n == Len(segments)
    IN IF add_transitions /\ n > 0
       THEN VideoTrims(segments) \o AudioTrims(segments)
                \o XfadeLoop(<<"v", 0>>, 1, n) \o AcrossfadeLoop(<<"a", 0>>, 1, n)
       ELSE VideoTrims(segments) \o AudioTrims(segments) \o <<ConcatStatement(n)>>

build_trim_concat_filter(segments, add_transitions) ==
    LET n == Len(segments)
    IN IF add_transitions /\ n > 1
       THEN VideoTrims(segments) \o AudioTrims(segments)
                \o XfadeLoop(<<"v", 0>>, 1, n) \o AcrossfadeLoop(<<"a", 0>>, 1, n)
       ELSE VideoTrims(segments) \o AudioTrims(segments) \o <<ConcatStatement(n)>>

\* ------------------------------------------------------------------------
\* Encoder profile selector
\* ------------------------------------------------------------------------
HARDWARE_ENCODER == "hevc_videotoolbox"
SOFTWARE_ENCODER == "libx265"
HARDWARE_BITRATE == "17M"
SOFTWARE_CRF == "18"
TARGET_FPS == "30"

HardwareArgs ==
    <<"-c:v", HARDWARE_ENCODER, "-b:v", HARDWARE_BITRATE, "-r", TARGET_FPS, "-tag:v", "hvc1">>

SoftwareArgs ==
    <<"-c:v", SOFTWARE_ENCODER, "-preset", "fast", "-crf", SOFTWARE_CRF,
      "-r", TARGET_FPS, "-tag:v", "hvc1">>

\* What `ffmpeg -hide_banner -encoders` can do when probed: return with a status
\* and a listing of encoder names on stdout, exceed the 5 s timeout, or fail to
\* start (subprocess.run raises).
EncoderNames == {"libx264", SOFTWARE_ENCODER, HARDWARE_ENCODER}

RECURSIVE ListingsOfLen(_)
ListingsOfLen(n) ==
    IF n = 0 THEN {<<>>}
    ELSE {Append(q, x) : q \in ListingsOfLen(n - 1), x \in EncoderNames}

Listings == UNION {ListingsOfLen(n) : n \in 0..MaxListing}

ProbeOutcomes ==
    [kind : {"returned"}, returncode : {0, 1}, stdout : Listings]
        \cup [kind : {"timeout", "exception"}, returncode : {0}, stdout : {<<>>}]

\* Mutant: the probe looks for the software encoder's name.
check_hardware_encoder_available_wrong_name(outcome) ==
    IF outcome.kind = "returned"
    THEN \E i \in 1..Len(outcome.stdout) : outcome.stdout[i] = SOFTWARE_ENCODER
    ELSE FALSE

\* check_hardware_encoder_available: "hevc_videotoolbox" in result.stdout when
\* subprocess.run returned (whatever its return code), False on any exception.
check_hardware_encoder_available(outcome) ==
    IF outcome.kind = "returned"
    THEN \E i \in 1..Len(outcome.stdout) : outcome.stdout[i] = "hevc_videotoolbox"
    ELSE FALSE

\* Mutant: the cache is consulted by truth value, so a cached False probes
\* again.
CacheIsUnsetFalsy(cache) == cache # "True"

\* `_hardware_encoder_available is None`
CacheIsUnset(cache) == cache = "None"

PyBool(b) == IF b THEN "True" ELSE "False"

\* The value of _hardware_encoder_available after a call of get_encoder_args
\* that finds `cache` and, if it probes, gets `outcome`.
CacheAfterCall(cache, outcome) ==
    IF CacheIsUnset(cache)
    THEN PyBool(check_hardware_encoder_available(outcome))
    ELSE cache

\* The list get_encoder_args returns.
EncoderArgsFor(cache) == IF cache = "True" THEN HardwareArgs ELSE SoftwareArgs

\* ------------------------------------------------------------------------
\* Pipeline orchestrator: values main works with
\* ------------------------------------------------------------------------
\* main's times are whole milliseconds, counted in ticks.
TicksPerMs == 1000 * TicksPerMicro

Scaled(tl) == [i \in 1..Len(tl) |-> <<tl[i][1] * TicksPerMs, tl[i][2] * TicksPerMs>>]

\* args as argparse returns them.  output is "None" or the path given;
\* padding is in milliseconds; merge_gap is in seconds (here: in ticks).
ArgSets ==
    [output : {"None", "args.output"},
     no_transcribe : BOOLEAN,
     save_transcript : BOOLEAN,
     keep_start : BOOLEAN,
     enhance_audio : BOOLEAN,
     add_transitions : BOOLEAN,
     merge_gap : {g * TicksPerMs : g \in 0..MaxMainGap},
     padding : 0..MaxMainPad]

\* get_duration's results: the source's length.
Durations == {MaxMainDur * TicksPerMs}

\* What get_speech_timestamps_silero can return for a source of length
\* `duration`: speech segments of the extracted audio, in order, inside the
\* source.
VadResults(duration) ==
    {Scaled(tl) : tl \in {x \in Timelines : Len(x) <= MaxVadLen
                                            /\ \A i \in 1..Len(x) : x[i][2] * TicksPerMs <= duration}}

\* padding_s = args.padding / 1000: milliseconds to seconds (here: to ticks).
PaddingSeconds(padding) == padding * TicksPerMs

\* What generate_smart_filename can return: a name derived from the transcript
\* or the timestamp fallback (never an empty string).
SmartNames == {"quick_brown_fox", "edited_video_YYYYmmdd_HHMMSS"}

\* Mutant: the no-speech check is missing.
NoSpeechNeverChecked(segments) == FALSE

\* `if not speech_segments:`
NoSpeech(segments) == segments = <<>>

\* Mutant: the temporary audio file is removed only when the try block ends
\* normally.
AudioAfterCleanupNormalOnly(how, exists) == IF how = "fallthrough" THEN FALSE ELSE exists

\* finally: if os.path.exists(audio_path): os.remove(audio_path).  Whether the
\* file exists afterwards, however the try block was left.
AudioAfterCleanup(how, exists) == FALSE

\* Mutant: any return code counts as success.
EncodeFailedNever(returncode) == FALSE

\* `if result.returncode != 0:`
EncodeFailed(returncode) == returncode # 0

DiagLimit == 1000

\* result.stderr[:1000], as a length.
DiagnosticShown(stderr_len) == Min(stderr_len, DiagLimit)

StderrLens == {0, DiagLimit} \cup {DiagLimit + k : k \in 1..ExtraStderr}

\* build_audio_enhancement_filter()
build_audio_enhancement_filter ==
    <<"highpass=f=80", "lowpass=f=12000", "equalizer=f=200:t=q:w=1:g=-1",
      "equalizer=f=3000:t=q:w=1:g=2",
      "acompressor=threshold=-20dB:ratio=3:attack=5:release=50",
      "loudnorm=I=-16:TP=-1.5:LRA=11">>

\* Mutant: the enhancement chain is appended after the statement writing
\* [outa] without renaming that statement's output.
RECURSIVE ReplaceOutaNoRename(_, _)
ReplaceOutaNoRename(graph, audio_filter) ==
    IF graph = <<>> THEN <<>>
    ELSE LET st == Head(graph)
             k == Len(st.outs)
         IN IF k > 0 /\ st.outs[k] = <<"outa">>
            THEN << st,
                    [ins |-> << <<"outa_pre">> >>, filter |-> "enhance",
                     chain |-> audio_filter, outs |-> << <<"outa">> >>] >>
                 \o ReplaceOutaNoRename(Tail(graph), audio_filter)
            ELSE <<st>> \o ReplaceOutaNoRename(Tail(graph), audio_filter)

\* filter_complex.replace("[outa]", f"[outa_pre];[outa_pre]{audio_filter}[outa]")
\* on the list of statements: a statement whose last output is [outa] now ends
\* in [outa_pre], and a statement from [outa_pre] through the enhancement chain
\* to [outa] follows it.  (The builder writes [outa] only as a last output.)
RECURSIVE ReplaceOuta(_, _)
ReplaceOuta(graph, audio_filter) ==
    IF graph = <<>> THEN <<>>
    ELSE LET st == Head(graph)
             k == Len(st.outs)
         IN IF k > 0 /\ st.outs[k] = <<"outa">>
            THEN << [st EXCEPT !.outs[k] = <<"outa_pre">>],
                    [ins |-> << <<"outa_pre">> >>, filter |-> "enhance",
                     chain |-> audio_filter, outs |-> << <<"outa">> >>] >>
                 \o ReplaceOuta(Tail(graph), audio_filter)
            ELSE <<st>> \o ReplaceOuta(Tail(graph), audio_filter)

\* Lines 327-333 of process_video: the graph handed to the encoder.
FilterComplex(segments, enhance_audio, add_transitions) ==
    LET filter_complex == build_trim_concat_filter(segments, add_transitions)
    IN IF enhance_audio
       THEN ReplaceOuta(filter_complex, build_audio_enhancement_filter)
       ELSE filter_complex

\* ------------------------------------------------------------------------
\* Smart naming: generate_smart_filename
\* ------------------------------------------------------------------------
\* A text is the sequence of its characters.
Letters ==
    {"a", "b", "c", "d", "e", "f", "g", "h", "i", "j", "k", "l", "m",
     "n", "o", "p", "q", "r", "s", "t", "u", "v", "w", "x", "y", "z"}

\* str.lower() on the upper-case letters.
UpperToLower ==
    [A |-> "a", B |-> "b", C |-> "c", D |-> "d", E |-> "e", F |-> "f", G |-> "g", H |-> "h", I |-> "i",
     J |-> "j", K |-> "k", L |-> "l", M |-> "m", N |-> "n", O |-> "o", P |-> "p", Q |-> "q", R |-> "r",
     S |-> "s", T |-> "t", U |-> "u", V |-> "v", W |-> "w", X |-> "x", Y |-> "y", Z |-> "z"]

Digits == {"0", "1", "2", "3", "4", "5", "6", "7", "8", "9"}

\* \w of the regular expressions: what a \b boundary separates from the rest.
WordChars == Letters \cup DOMAIN UpperToLower \cup Digits \cup {"_"}

Whitespace == {" "}

RECURSIVE LStrip(_)
LStrip(text) ==
    IF text # <<>> /\ Head(text) \in Whitespace THEN LStrip(Tail(text)) ELSE text

RECURSIVE RStrip(_)
RStrip(text) ==
    IF text # <<>> /\ text[Len(text)] \in Whitespace
    THEN RStrip(SubSeq(text, 1, Len(text) - 1))
    ELSE text

\* str.strip()
Strip(text) == RStrip(LStrip(text))

\* str.lower()
Lower(text) ==
    [i \in 1..Len(text) |->
        IF text[i] \in DOMAIN UpperToLower THEN UpperToLower[text[i]] ELSE text[i]]

\* re.split(r'[.!?]', text)[0]: the text before its first sentence terminator.
RECURSIVE FirstSplit(_)
FirstSplit(text) ==
    IF text = <<>> \/ Head(text) \in {".", "!", "?"} THEN <<>>
    ELSE <<Head(text)>> \o FirstSplit(Tail(text))

\* The last index of the run of word characters that starts at index i.
RECURSIVE RunEnd(_, _)
RunEnd(text, i) ==
    IF i < Len(text) /\ text[i + 1] \in WordChars THEN RunEnd(text, i + 1) ELSE i

\* re.findall(r'\b[a-zA-Z]{min_len,}\b', text) scanning from index i: a match
\* is a run of word characters made of letters only, at least min_len long (a
\* run holding a digit or an underscore has no \b inside it and gives no match).
RECURSIVE FindWords(_, _, _)
FindWords(text, i, min_len) ==
    IF i > Len(text) THEN <<>>
    ELSE IF text[i] \notin WordChars THEN FindWords(text, i + 1, min_len)
    ELSE LET j == RunEnd(text, i)
             run == SubSeq(text, i, j)
         IN (IF Len(run) >= min_len
                /\ \A k \in 1..Len(run) : run[k] \in Letters \cup DOMAIN UpperToLower
             THEN <<run>> ELSE <<>>)
            \o FindWords(text, j + 1, min_len)

\* seq[:n] of Python, n negative included.
Slice(seq, n) ==
    SubSeq(seq, 1, IF n >= 0 THEN Min(n, Len(seq)) ELSE Max(0, Len(seq) + n))

stop_words ==
    {
     <<"t", "h", "e">>, <<"a">>, <<"a", "n">>, <<"a", "n", "d">>, <<"o", "r">>,
     <<"b", "u", "t">>, <<"i", "n">>, <<"o", "n">>, <<"a", "t">>, <<"t", "o">>,
     <<"f", "o", "r">>, <<"o", "f">>, <<"w", "i", "t", "h">>, <<"b", "y">>,
     <<"f", "r", "o", "m">>, <<"a", "s">>, <<"i", "s">>, <<"w", "a", "s">>, <<"a", "r", "e">>,
     <<"w", "e", "r", "e">>, <<"b", "e", "e", "n">>, <<"b", "e">>, <<"h", "a", "v", "e">>,
     <<"h", "a", "s">>, <<"h", "a", "d">>, <<"d", "o">>, <<"d", "o", "e", "s">>,
     <<"d", "i", "d">>, <<"w", "i", "l", "l">>, <<"w", "o", "u", "l", "d">>,
     <<"c", "o", "u", "l", "d">>, <<"s", "h", "o", "u", "l", "d">>, <<"m", "a", "y">>,
     <<"m", "i", "g", "h", "t">>, <<"m", "u", "s", "t">>, <<"s", "h", "a", "l", "l">>,
     <<"c", "a", "n">>, <<"t", "h", "i", "s">>, <<"t", "h", "a", "t">>,
     <<"t", "h", "e", "s", "e">>, <<"t", "h", "o", "s", "e">>, <<"i">>, <<"y", "o", "u">>,
     <<"h", "e">>, <<"s", "h", "e">>, <<"i", "t">>, <<"w", "e">>, <<"t", "h", "e", "y">>,
     <<"w", "h", "a", "t">>, <<"w", "h", "i", "c", "h">>, <<"w", "h", "o">>,
     <<"w", "h", "e", "n">>, <<"w", "h", "e", "r", "e">>, <<"w", "h", "y">>, <<"h", "o", "w">>,
     <<"a", "l", "l">>, <<"e", "a", "c", "h">>, <<"e", "v", "e", "r", "y">>,
     <<"b", "o", "t", "h">>, <<"f", "e", "w">>, <<"m", "o", "r", "e">>, <<"m", "o", "s", "t">>,
     <<"o", "t", "h", "e", "r">>, <<"s", "o", "m", "e">>, <<"s", "u", "c", "h">>, <<"n", "o">>,
     <<"n", "o", "r">>, <<"n", "o", "t">>, <<"o", "n", "l", "y">>, <<"o", "w", "n">>,
     <<"s", "a", "m", "e">>, <<"s", "o">>, <<"t", "h", "a", "n">>, <<"t", "o", "o">>,
     <<"v", "e", "r", "y">>, <<"j", "u", "s", "t">>, <<"u", "m">>, <<"u", "h">>,
     <<"l", "i", "k", "e">>, <<"y", "o", "u", " ", "k", "n", "o", "w">>,
     <<"b", "a", "s", "i", "c", "a", "l", "l", "y">>,
     <<"a", "c", "t", "u", "a", "l", "l", "y">>, <<"r", "e", "a", "l", "l", "y">>,
     <<"g", "o", "n", "n", "a">>, <<"w", "a", "n", "n", "a">>, <<"g", "o", "t", "t", "a">>,
     <<"o", "k", "a", "y">>, <<"o", "k">>, <<"h", "e", "y">>, <<"h", "i">>,
     <<"h", "e", "l", "l", "o">>, <<"w", "e", "l", "l">>, <<"r", "i", "g", "h", "t">>,
     <<"y", "e", "a", "h">>, <<"y", "e", "s">>, <<"m", "a", "y", "b", "e">>,
     <<"t", "h", "i", "n", "k">>, <<"k", "n", "o", "w">>, <<"s", "e", "e">>,
     <<"l", "o", "o", "k">>, <<"c", "o", "m", "e">>, <<"g", "o">>, <<"g", "e", "t">>,
     <<"m", "a", "k", "e">>, <<"t", "a", "k", "e">>, <<"s", "a", "y">>, <<"s", "a", "i", "d">>,
     <<"s", "a", "y", "s">>, <<"l", "e", "t">>, <<"l", "e", "t", "'", "s">>, <<"i", "'", "m">>,
     <<"i", "'", "l", "l">>, <<"i", "'", "v", "e">>, <<"i", "t", "'", "s">>,
     <<"t", "h", "a", "t", "'", "s">>, <<"t", "h", "e", "r", "e", "'", "s">>,
     <<"h", "e", "r", "e", "'", "s">>, <<"w", "h", "a", "t", "'", "s">>,
     <<"d", "o", "n", "'", "t">>, <<"d", "o", "e", "s", "n", "'", "t">>,
     <<"d", "i", "d", "n", "'", "t">>, <<"w", "o", "n", "'", "t">>,
     <<"w", "o", "u", "l", "d", "n", "'", "t">>, <<"c", "o", "u", "l", "d", "n", "'", "t">>,
     <<"s", "h", "o", "u", "l", "d", "n", "'", "t">>, <<"c", "a", "n", "'", "t">>,
     <<"h", "a", "v", "e", "n", "'", "t">>, <<"h", "a", "s", "n", "'", "t">>,
     <<"h", "a", "d", "n", "'", "t">>, <<"i", "s", "n", "'", "t">>,
     <<"a", "r", "e", "n", "'", "t">>, <<"w", "a", "s", "n", "'", "t">>,
     <<"w", "e", "r", "e", "n", "'", "t">>
    }

\* "_".join(words)
RECURSIVE Join(_)
Join(words) ==
    IF words = <<>> THEN <<>>
    ELSE IF Len(words) = 1 THEN words[1]
    ELSE words[1] \o <<"_">> \o Join(Tail(words))

\* re.sub(r'[^a-z0-9_]', '', filename)
OnlyNameChars(filename) ==
    SelectSeq(filename, LAMBDA c : c \in Letters \cup Digits \cup {"_"})

MinTranscriptLen == 10
MaxFilenameLen == 50

\* Mutant: the name is not cut.
LimitLengthNone(filename) == filename

\* filename[:50]
LimitLength(filename) == SubSeq(filename, 1, Min(Len(filename), MaxFilenameLen))

\* f"edited_video_{datetime.now().strftime('%Y%m%d_%H%M%S')}", at one instant.
TimestampName ==
    <<"e", "d", "i", "t", "e", "d", "_", "v", "i", "d", "e", "o", "_">>
        \o <<"2", "0", "2", "5", "0", "1", "0", "1", "_", "1", "2", "0", "0", "0", "0">>

\* A transcript argument: None, or a text.
NoTranscript == [none |-> TRUE, text |-> <<>>]

\* Mutant: with no word left the joined (empty) name is returned.
FilenameFromNoFallback(meaningful_words) ==
    LimitLength(OnlyNameChars(Join(meaningful_words)))

\* Lines 156-166: the name made of the words kept.
FilenameFrom(meaningful_words) ==
    IF meaningful_words = <<>> THEN TimestampName
    ELSE LimitLength(OnlyNameChars(Join(meaningful_words)))

generate_smart_filename(transcript, max_words) ==
    IF transcript.none \/ transcript.text = <<>>
       \/ Len(Strip(transcript.text)) < MinTranscriptLen
    THEN TimestampName
    ELSE LET text == Strip(transcript.text)
             first_sentence == Strip(FirstSplit(text))
             words == FindWords(Lower(first_sentence), 1, 3)
             meaningful_words == Slice(SelectSeq(words, LAMBDA w : w \notin stop_words),
                                       max_words)
         IN IF meaningful_words = <<>>
            THEN FilenameFrom(Slice(FindWords(Lower(first_sentence), 1, 1), max_words))
            ELSE FilenameFrom(meaningful_words)

\* The pieces transcripts are put together from.
Pieces ==
    {
     <<"t", "h", "e", " ">>, <<"Q", "u", "i", "c", "k", " ">>, <<"f", "o", "x", " ">>, <<".">>,
     <<"!", " ">>, <<"i", "t", "'", "s", " ">>, <<"a", "b", "1", " ">>,
     <<"x", "_", "y", "z", " ">>, <<"g", "o", " ">>,
     <<"i", "n", "t", "e", "r", "n", "a", "t", "i", "o", "n", "a", "l", "i", "z", "a", "t", "i", "o", "n", " ">>,
     <<" ", " ">>, <<"b", "r", "o", "w", "n", ",">>
    }

RECURSIVE TextsOfPieces(_)
TextsOfPieces(n) ==
    IF n = 0 THEN {<<>>}
    ELSE {t \o piece : t \in TextsOfPieces(n - 1), piece \in Pieces}

ExampleText ==
    <<"T", "h", "e", " ", "q", "u", "i", "c", "k", " ", "b", "r", "o", "w", "n", " ", "f", "o", "x", " ", "j", "u", "m", "p", "s", ".">>

Transcripts ==
    {NoTranscript}
        \cup {[none |-> FALSE, text |-> t] :
                 t \in {ExampleText} \cup UNION {TextsOfPieces(n) : n \in 0..MaxPieces}}

\* ------------------------------------------------------------------------
\* State
\* ------------------------------------------------------------------------
VARIABLES
    tl_in,        \* the timeline handed to a timeline operation
    tl_gap,       \* max_gap
    tl_pad,       \* padding_s
    tl_dur,       \* duration
    tl_keep,      \* keep_start
    tl_op,        \* the operation applied: "none", "merge", "pad", "force"
    tl_out,       \* the timeline it returned
    tl_transitions, \* add_transitions handed to build_trim_concat_filter
    tl_graph,     \* the graph build_trim_concat_filter returned
    nm_transcript, \* the transcript handed to generate_smart_filename
    nm_max_words, \* max_words
    nm_op,        \* "none", or "name" once generate_smart_filename was applied
    nm_name,      \* the name it returned
    heap,         \* list objects holding timelines: heap[id] is what list id holds
    speech_segments_ref, \* the list main's variable speech_segments refers to
    stage_pc,     \* the timeline stage of main to run next
    stage_log,    \* per stage run: its input list, what that list held, its output list
    hardware_encoder_available,  \* the global _hardware_encoder_available
    probe_log,    \* outcome of every run of check_hardware_encoder_available
    cache_writes, \* number of assignments to _hardware_encoder_available
    notices,      \* the encoder notices printed
    enc_returns,  \* what each call of get_encoder_args returned
    args,         \* main: the parsed command line
    input_exists, \* main: os.path.exists(input_path)
    pc,           \* main: where the run is
    pending,      \* main: how a try block is being left
    loc,          \* main: local variables (vad_segments, padded_segments: what VAD and
                  \* add_padding returned)
    fs,           \* main: files and directories the run creates
    events,       \* main: collaborator calls and reports, in order
    encode_calls, \* main: what the encode collaborator was invoked with
    diag,         \* main: the encode collaborator's result and what was shown
    exit_status,  \* main: the process's exit status (-1: running)
    uncaught      \* main: the run ended by an uncaught exception

tlVars == <<tl_in, tl_gap, tl_pad, tl_dur, tl_keep, tl_op, tl_out, tl_transitions, tl_graph>>

nmVars == <<nm_transcript, nm_max_words, nm_op, nm_name>>

objVars == <<heap, speech_segments_ref, stage_pc, stage_log>>

encVars == <<hardware_encoder_available, probe_log, cache_writes, notices, enc_returns>>

mainVars == <<args, input_exists, pc, pending, loc, fs, events, encode_calls, diag,
              exit_status, uncaught>>

vars == <<tlVars, nmVars, objVars, encVars, mainVars>>

\* main's locals, the file system and the logs before main runs.
MainFresh ==
    /\ pending = "none"
    /\ loc = [duration |-> 0, transcript_data |-> "None", smart_name |-> "None",
              output_path |-> "None", vad_result |-> "none", vad_segments |-> <<>>,
              speech_segments |-> <<>>, padded_segments |-> <<>>, filter_complex |-> <<>>, success |-> "None"]
    /\ fs = [outdir |-> FALSE, audio |-> FALSE, audio_created |-> FALSE,
             filter |-> FALSE, filter_created |-> FALSE, output |-> "absent",
             transcript_json |-> FALSE, transcript_txt |-> FALSE]
    /\ events = <<>>
    /\ encode_calls = <<>>
    /\ diag = [returncode |-> -1, stderr_len |-> 0, shown |-> -1]
    /\ exit_status = -1
    /\ uncaught = FALSE

\* main has not been entered.
MainIdle ==
    /\ args = [output |-> "None", no_transcribe |-> FALSE, save_transcript |-> TRUE,
               keep_start |-> TRUE, enhance_audio |-> FALSE, add_transitions |-> FALSE,
               merge_gap |-> 0, padding |-> 0]
    /\ input_exists = FALSE
    /\ pc = "idle"
    /\ MainFresh

TimelineIdle ==
    /\ tl_in = <<>>
    /\ tl_gap = 0
    /\ tl_pad = 0
    /\ tl_dur = 1
    /\ tl_keep = FALSE
    /\ tl_op = "none"
    /\ tl_out = <<>>
    /\ tl_transitions = FALSE
    /\ tl_graph = <<>>

\* generate_smart_filename has not been called.
NameIdle ==
    /\ nm_transcript = NoTranscript
    /\ nm_max_words = 0
    /\ nm_op = "none"
    /\ nm_name = <<>>
    /\ heap = <<>>
    /\ speech_segments_ref = 0
    /\ stage_pc = "idle"
    /\ stage_log = <<>>

\* Process start: the module-level assignment _hardware_encoder_available = None.
EncoderInit ==
    /\ hardware_encoder_available = "None"
    /\ probe_log = <<>>
    /\ cache_writes = 0
    /\ notices = <<>>
    /\ enc_returns = <<>>

\* get_encoder_args, with `outcome` what the probe does if it is run.
get_encoder_args(outcome) ==
    /\ hardware_encoder_available' = CacheAfterCall(hardware_encoder_available, outcome)
    /\ IF CacheIsUnset(hardware_encoder_available)
       THEN /\ probe_log' = Append(probe_log, outcome)
            /\ cache_writes' = cache_writes + 1
            /\ notices' = Append(notices,
                   IF check_hardware_encoder_available(outcome)
                   THEN "Hardware encoding enabled (hevc_videotoolbox)"
                   ELSE "Using software encoding (libx265)")
       ELSE UNCHANGED <<probe_log, cache_writes, notices>>
    /\ enc_returns' = Append(enc_returns, EncoderArgsFor(hardware_encoder_available'))

\* ------------------------------------------------------------------------
\* The timeline operations applied to any valid timeline
\* ------------------------------------------------------------------------
TimelineInit ==
    /\ tl_in \in Timelines
    /\ tl_gap = 0
    /\ tl_pad = 0
    /\ tl_dur = 1
    /\ tl_keep = FALSE
    /\ tl_op = "none"
    /\ tl_out = <<>>
    /\ tl_transitions = FALSE
    /\ tl_graph = <<>>
    /\ NameIdle
    /\ EncoderInit
    /\ MainIdle

\* merge_close_segments(tl_in, max_gap)
CallMerge ==
    /\ tl_op = "none"
    /\ \E max_gap \in -1..MaxGap :
          /\ tl_gap' = max_gap
          /\ tl_out' = merge_close_segments(tl_in, max_gap)
    /\ tl_op' = "merge"
    /\ UNCHANGED <<tl_in, tl_pad, tl_dur, tl_keep, tl_transitions, tl_graph>>
    /\ UNCHANGED <<nmVars, objVars, encVars, mainVars>>

\* add_padding(tl_in, padding_s, duration)
CallPad ==
    /\ tl_op = "none"
    /\ \E padding_s \in 0..MaxPad, duration \in 1..MaxDur :
          /\ tl_pad' = padding_s
          /\ tl_dur' = duration
          /\ tl_out' = add_padding(tl_in, padding_s, duration)
    /\ tl_op' = "pad"
    /\ UNCHANGED <<tl_in, tl_gap, tl_keep, tl_transitions, tl_graph>>
    /\ UNCHANGED <<nmVars, objVars, encVars, mainVars>>

\* the force-start-at-zero step applied to tl_in
CallKeepStart ==
    /\ tl_op = "none"
    /\ \E keep_start \in BOOLEAN :
          /\ tl_keep' = keep_start
          /\ tl_out' = KeepStartStep(tl_in, keep_start)
    /\ tl_op' = "force"
    /\ UNCHANGED <<tl_in, tl_gap, tl_pad, tl_dur, tl_transitions, tl_graph>>
    /\ UNCHANGED <<nmVars, objVars, encVars, mainVars>>

\* build_trim_concat_filter(tl_in, add_transitions)
CallBuildFilter ==
    /\ tl_op = "none"
    /\ \E add_transitions \in BOOLEAN :
          /\ tl_transitions' = add_transitions
          /\ tl_graph' = build_trim_concat_filter(tl_in, add_transitions)
    /\ tl_op' = "build"
    /\ UNCHANGED <<tl_in, tl_gap, tl_pad, tl_dur, tl_keep, tl_out>>
    /\ UNCHANGED <<nmVars, objVars, encVars, mainVars>>

TimelineNext == CallMerge \/ CallPad \/ CallKeepStart \/ CallBuildFilter

SpecTimeline == TimelineInit /\ [][TimelineNext]_vars

\* ------------------------------------------------------------------------
\* main
\* ------------------------------------------------------------------------
MainInit ==
    /\ TimelineIdle
    /\ NameIdle
    /\ EncoderInit
    /\ args \in ArgSets
    /\ input_exists \in BOOLEAN
    /\ pc = "start"
    /\ MainFresh

\* Mutant: every return of main reports success.
ReturnZero(status) ==
    /\ pc' = "done"
    /\ exit_status' = 0
    /\ uncaught' = FALSE

\* return 1 / return 0
Return(status) ==
    /\ pc' = "done"
    /\ exit_status' = status
    /\ uncaught' = FALSE

\* An exception leaves main: the interpreter prints it and exits with 1.
Raise ==
    /\ pc' = "done"
    /\ exit_status' = 1
    /\ uncaught' = TRUE

Goto(label) ==
    /\ pc' = label
    /\ UNCHANGED <<exit_status, uncaught>>

\* Mutant: the run goes on whether or not the input exists.
CheckInputSkipped ==
    /\ pc = "start"
    /\ Goto("get_duration")
    /\ UNCHANGED <<tlVars, nmVars, objVars, encVars, args, input_exists, pending, loc, fs, events,
                   encode_calls, diag>>

\* Lines 428-436.
CheckInput ==
    /\ pc = "start"
    /\ IF input_exists
       THEN Goto("get_duration") /\ UNCHANGED events
       ELSE Return(1) /\ events' = Append(events, "print:input_not_found")
    /\ UNCHANGED <<tlVars, nmVars, objVars, encVars, args, input_exists, pending, loc, fs, encode_calls, diag>>

\* Lines 441-442: duration = get_duration(input_path).
GetDuration ==
    /\ pc = "get_duration"
    /\ events' = Append(events, "get_duration")
    /\ \/ \E d \in Durations : loc' = [loc EXCEPT !.duration = d] /\ Goto("mkdir")
       \/ UNCHANGED loc /\ Raise
    /\ UNCHANGED <<tlVars, nmVars, objVars, encVars, args, input_exists, pending, fs, encode_calls, diag>>

\* Lines 445-446: output_dir.mkdir(parents=True, exist_ok=True).
MakeOutputDir ==
    /\ pc = "mkdir"
    /\ \/ fs' = [fs EXCEPT !.outdir = TRUE] /\ Goto("tempfile")
       \/ UNCHANGED fs /\ Raise
    /\ UNCHANGED <<tlVars, nmVars, objVars, encVars, args, input_exists, pending, loc, events, encode_calls, diag>>

\* Lines 449-451: the temporary .wav file is created (delete=False).
CreateTempAudio ==
    /\ pc = "tempfile"
    /\ events' = Append(events, "create_temp_audio")
    /\ \/ fs' = [fs EXCEPT !.audio = TRUE, !.audio_created = TRUE] /\ Goto("extract")
       \/ UNCHANGED fs /\ Raise
    /\ UNCHANGED <<tlVars, nmVars, objVars, encVars, args, input_exists, pending, loc, encode_calls, diag>>

\* Leaving the try block of lines 453-494 towards its finally clause.
LeaveTry(how) ==
    /\ pending' = how
    /\ Goto("finally_audio")

\* Lines 454-460: extract_audio (check=True raises when ffmpeg fails; ffmpeg
\* may or may not have left the file in place).
ExtractAudio ==
    /\ pc = "extract"
    /\ events' = Append(events, "extract_audio")
    /\ \/ /\ Goto(IF args.no_transcribe THEN "output_path" ELSE "transcribe")
          /\ UNCHANGED <<pending, fs>>
       \/ /\ LeaveTry("raise")
          /\ \E left \in BOOLEAN : fs' = [fs EXCEPT !.audio = left]
    /\ UNCHANGED <<tlVars, nmVars, objVars, encVars, args, input_exists, loc, encode_calls, diag>>

\* transcribe_video: what the import, the install and the model can do.
TranscribeOutcomes ==
    [import : BOOLEAN, install : BOOLEAN, reimport : BOOLEAN, run : BOOLEAN]

\* The collaborator steps transcribe_video takes under outcome o (lines 97-105).
TranscribeSteps(o) ==
    <<"import_whisper">>
        \o (IF o.import THEN <<>>
            ELSE <<"ImportError:whisper", "pip_install">>
                    \o (IF ~o.install THEN <<"pip_install:failed">>
                        ELSE <<"import_whisper">>
                                \o (IF o.reimport THEN <<>> ELSE <<"ImportError:whisper">>)))
        \o (IF o.import \/ (o.install /\ o.reimport) THEN <<"whisper_transcribe">> ELSE <<>>)

TranscribeReturns(o) == (o.import \/ (o.install /\ o.reimport)) /\ o.run

\* Line 461: transcript_data = transcribe_video(audio_path, args.whisper_model).
Transcribe ==
    /\ pc = "transcribe"
    /\ \E o \in TranscribeOutcomes :
          /\ events' = events \o <<"transcribe_video">> \o TranscribeSteps(o)
          /\ IF TranscribeReturns(o)
             THEN /\ loc' = [loc EXCEPT !.transcript_data = "dict"]
                  /\ Goto("name")
                  /\ UNCHANGED pending
             ELSE /\ UNCHANGED loc
                  /\ LeaveTry("raise")
    /\ UNCHANGED <<tlVars, nmVars, objVars, encVars, args, input_exists, fs, encode_calls, diag>>

\* Lines 462-463: smart_name = generate_smart_filename(transcript_data['text']).
DeriveName ==
    /\ pc = "name"
    /\ events' = Append(events, "generate_smart_filename")
    /\ \/ /\ \E name \in SmartNames : loc' = [loc EXCEPT !.smart_name = name]
          /\ Goto("output_path")
          /\ UNCHANGED pending
       \/ /\ UNCHANGED loc
          /\ LeaveTry("raise")
    /\ UNCHANGED <<tlVars, nmVars, objVars, encVars, args, input_exists, fs, encode_calls, diag>>

\* Lines 466-476.
ChooseOutputPath ==
    /\ pc = "output_path"
    /\ loc' = [loc EXCEPT !.output_path =
                  IF args.output # "None" THEN args.output
                  ELSE IF loc.smart_name # "None" THEN "output_dir/smart_name.mp4"
                  ELSE "output_dir/edited_timestamp.mp4"]
    /\ Goto("vad")
    /\ UNCHANGED <<tlVars, nmVars, objVars, encVars, args, input_exists, pending, fs, events, encode_calls, diag>>

\* Lines 479-494: speech_segments = get_speech_timestamps_silero(...), then the
\* no-speech check.  The collaborator returns its segments, or raises after
\* `import torch` (line 174) succeeded, or `import torch` itself raises.
RunVad ==
    /\ pc = "vad"
    /\ \/ /\ \E segments \in VadResults(loc.duration) :
                /\ loc' = [loc EXCEPT !.speech_segments = segments,
                                      !.vad_segments = segments,
                                      !.vad_result = IF segments = <<>> THEN "empty"
                                                     ELSE "segments"]
                /\ IF NoSpeech(segments)
                   THEN /\ events' = events \o <<"vad", "import_torch", "print:no_speech">>
                        /\ LeaveTry("return1")
                   ELSE /\ events' = events \o <<"vad", "import_torch">>
                        /\ LeaveTry("fallthrough")
       \/ /\ loc' = [loc EXCEPT !.vad_result = "raised"]
          /\ events' = events \o <<"vad", "import_torch">>
          /\ LeaveTry("raise")
       \/ /\ loc' = [loc EXCEPT !.vad_result = "raised"]
          /\ events' = events \o <<"vad", "import_torch", "ImportError:torch">>
          /\ LeaveTry("raise")
    /\ UNCHANGED <<tlVars, nmVars, objVars, encVars, args, input_exists, fs, encode_calls, diag>>

\* Lines 496-498: the finally clause, then where the try block was going.
CleanupAudio ==
    /\ pc = "finally_audio"
    /\ fs' = [fs EXCEPT !.audio = AudioAfterCleanup(pending, fs.audio)]
    /\ pending' = "none"
    /\ CASE pending = "fallthrough" -> Goto("merge")
         [] pending = "return1" -> Return(1)
         [] pending = "raise" -> Raise
    /\ UNCHANGED <<tlVars, nmVars, objVars, encVars, args, input_exists, loc, events, encode_calls, diag>>

\* Line 501: speech_segments = merge_close_segments(speech_segments, args.merge_gap).
MergeStep ==
    /\ pc = "merge"
    /\ loc' = [loc EXCEPT !.speech_segments =
                  merge_close_segments(loc.speech_segments, args.merge_gap)]
    /\ events' = Append(events, "merge")
    /\ Goto("pad")
    /\ UNCHANGED <<tlVars, nmVars, objVars, encVars, args, input_exists, pending, fs, encode_calls, diag>>

\* Mutant: the padding stage is left out.
PadStepSkipped ==
    /\ pc = "pad"
    /\ Goto("keep_start")
    /\ UNCHANGED <<tlVars, nmVars, objVars, encVars, args, input_exists, pending, loc, fs, events,
                   encode_calls, diag>>

\* Lines 505-506: speech_segments = add_padding(speech_segments, padding_s, duration).
PadStep ==
    /\ pc = "pad"
    /\ LET padded == add_padding(loc.speech_segments, PaddingSeconds(args.padding),
                                 loc.duration)
       IN loc' = [loc EXCEPT !.speech_segments = padded, !.padded_segments = padded]
    /\ events' = Append(events, "pad")
    /\ Goto("keep_start")
    /\ UNCHANGED <<tlVars, nmVars, objVars, encVars, args, input_exists, pending, fs, encode_calls, diag>>

\* Lines 510-518: the force-start-at-zero step.
KeepStartMain ==
    /\ pc = "keep_start"
    /\ loc' = [loc EXCEPT !.speech_segments = KeepStartStep(loc.speech_segments, args.keep_start)]
    /\ events' = IF loc'.speech_segments # loc.speech_segments
                 THEN events \o <<"keep_start", "print:extended_first_segment">>
                 ELSE Append(events, "keep_start")
    /\ Goto("pv_encoder")
    /\ UNCHANGED <<tlVars, nmVars, objVars, encVars, args, input_exists, pending, fs, encode_calls, diag>>

\* The probe outcomes main is run against: hardware encoder listed, not listed,
\* probe failed to start.
MainProbeOutcomes ==
    {o \in ProbeOutcomes :
        \/ o.kind = "exception"
        \/ o.kind = "returned" /\ o.returncode = 0 /\ o.stdout \in {<<>>, <<HARDWARE_ENCODER>>}}

\* process_video, lines 323-326: encoder_args = get_encoder_args().
PvGetEncoderArgs ==
    /\ pc = "pv_encoder"
    /\ \E outcome \in MainProbeOutcomes : get_encoder_args(outcome)
    /\ events' = events \o (IF CacheIsUnset(hardware_encoder_available)
                            THEN <<"process_video", "probe_encoder">>
                            ELSE <<"process_video">>)
    /\ Goto("pv_build")
    /\ UNCHANGED <<tlVars, nmVars, objVars, args, input_exists, pending, loc, fs, encode_calls, diag>>

\* process_video, lines 327-333: the graph, with the enhancement if requested.
PvBuildFilter ==
    /\ pc = "pv_build"
    /\ loc' = [loc EXCEPT !.filter_complex =
                  FilterComplex(loc.speech_segments, args.enhance_audio, args.add_transitions)]
    /\ events' = Append(events, "build_filter")
    /\ Goto("pv_tempfile")
    /\ UNCHANGED <<tlVars, nmVars, objVars, encVars, args, input_exists, pending, fs, encode_calls, diag>>

\* process_video, lines 336-338: the filter script file is created (delete=False)
\* and written; either step may raise, before the try block of line 340.
PvWriteFilterScript ==
    /\ pc = "pv_tempfile"
    /\ \/ fs' = [fs EXCEPT !.filter = TRUE, !.filter_created = TRUE] /\ Goto("pv_encode")
       \/ UNCHANGED fs /\ Raise
       \/ fs' = [fs EXCEPT !.filter = TRUE, !.filter_created = TRUE] /\ Raise
    /\ UNCHANGED <<tlVars, nmVars, objVars, encVars, args, input_exists, pending, loc, events, encode_calls, diag>>

\* process_video, lines 341-363: the encode collaborator is run; a non-zero
\* return code is reported with result.stderr[:1000].
PvRunEncode ==
    /\ pc = "pv_encode"
    /\ encode_calls' = Append(encode_calls,
           [segments |-> loc.speech_segments, graph |-> loc.filter_complex,
            encoder_args |-> enc_returns[Len(enc_returns)]])
    /\ \/ /\ events' = Append(events, "encode")
          /\ pending' = "raise"
          /\ UNCHANGED <<diag, fs>>
       \/ \E returncode \in {0, 1}, stderr_len \in StderrLens, partial \in BOOLEAN :
             /\ returncode = 0 => stderr_len = 0 /\ partial = FALSE
             /\ fs' = [fs EXCEPT !.output = IF returncode = 0 THEN "complete"
                                            ELSE IF partial THEN "partial" ELSE "absent"]
             /\ IF EncodeFailed(returncode)
                THEN /\ diag' = [returncode |-> returncode, stderr_len |-> stderr_len,
                                 shown |-> DiagnosticShown(stderr_len)]
                     /\ events' = events \o <<"encode", "print:ffmpeg_error">>
                     /\ pending' = "return_false"
                ELSE /\ diag' = [returncode |-> returncode, stderr_len |-> stderr_len,
                                 shown |-> -1]
                     /\ events' = Append(events, "encode")
                     /\ pending' = "return_true"
    /\ Goto("pv_finally")
    /\ UNCHANGED <<tlVars, nmVars, objVars, encVars, args, input_exists, loc>>

\* Mutant: a failed encode is tried again.
PvCleanupRetries ==
    /\ pc = "pv_finally"
    /\ fs' = [fs EXCEPT !.filter = FALSE]
    /\ pending' = "none"
    /\ CASE pending = "return_true" ->
              /\ loc' = [loc EXCEPT !.success = "True"]
              /\ UNCHANGED events
              /\ Goto("save_transcript")
         [] pending = "return_false" ->
              /\ UNCHANGED <<loc, events>>
              /\ Goto("pv_encode")
         [] pending = "raise" ->
              /\ UNCHANGED <<loc, events>>
              /\ Raise
    /\ UNCHANGED <<tlVars, nmVars, objVars, encVars, args, input_exists, encode_calls, diag>>

\* Mutant: main goes on to the transcript after a failed encode.
PvCleanupIgnoresFailure ==
    /\ pc = "pv_finally"
    /\ fs' = [fs EXCEPT !.filter = FALSE]
    /\ pending' = "none"
    /\ CASE pending = "return_true" ->
              /\ loc' = [loc EXCEPT !.success = "True"]
              /\ UNCHANGED events
              /\ Goto("save_transcript")
         [] pending = "return_false" ->
              /\ loc' = [loc EXCEPT !.success = "False"]
              /\ UNCHANGED events
              /\ Goto("save_transcript")
         [] pending = "raise" ->
              /\ UNCHANGED <<loc, events>>
              /\ Raise
    /\ UNCHANGED <<tlVars, nmVars, objVars, encVars, args, input_exists, encode_calls, diag>>

\* process_video, lines 364-366 (finally), then main, lines 529-531.
PvCleanup ==
    /\ pc = "pv_finally"
    /\ fs' = [fs EXCEPT !.filter = FALSE]
    /\ pending' = "none"
    /\ CASE pending = "return_true" ->
              /\ loc' = [loc EXCEPT !.success = "True"]
              /\ UNCHANGED events
              /\ Goto("save_transcript")
         [] pending = "return_false" ->
              /\ loc' = [loc EXCEPT !.success = "False"]
              /\ events' = Append(events, "print:processing_failed")
              /\ Return(1)
         [] pending = "raise" ->
              /\ UNCHANGED <<loc, events>>
              /\ Raise
    /\ UNCHANGED <<tlVars, nmVars, objVars, encVars, args, input_exists, encode_calls, diag>>

\* Mutant: the transcript files are written whenever persistence is on.
SaveTranscriptAlways ==
    /\ pc = "save_transcript"
    /\ IF args.save_transcript
       THEN /\ events' = Append(events, "save_transcript")
            /\ fs' = [fs EXCEPT !.transcript_json = TRUE, !.transcript_txt = TRUE]
            /\ Goto("stats")
       ELSE /\ UNCHANGED <<events, fs>>
            /\ Goto("stats")
    /\ UNCHANGED <<tlVars, nmVars, objVars, encVars, args, input_exists, pending, loc,
                   encode_calls, diag>>

\* Lines 533-535 and save_transcript: the .json file, then the .txt file.
SaveTranscript ==
    /\ pc = "save_transcript"
    /\ IF loc.transcript_data # "None" /\ args.save_transcript
       THEN /\ events' = Append(events, "save_transcript")
            /\ \/ /\ fs' = [fs EXCEPT !.transcript_json = TRUE, !.transcript_txt = TRUE]
                  /\ Goto("stats")
               \/ /\ \E json_written \in BOOLEAN : fs' = [fs EXCEPT !.transcript_json = json_written]
                  /\ Raise
       ELSE /\ UNCHANGED <<events, fs>>
            /\ Goto("stats")
    /\ UNCHANGED <<tlVars, nmVars, objVars, encVars, args, input_exists, pending, loc, encode_calls, diag>>

\* Lines 538-555: the summary, from get_duration(output_path).
FinalStats ==
    /\ pc = "stats"
    /\ \/ /\ events' = events \o <<"get_duration_output", "print:complete">>
          /\ Return(0)
       \/ /\ events' = Append(events, "get_duration_output")
          /\ Raise
    /\ UNCHANGED <<tlVars, nmVars, objVars, encVars, args, input_exists, pending, loc, fs, encode_calls, diag>>

MainNext ==
    \/ CheckInput
    \/ GetDuration
    \/ MakeOutputDir
    \/ CreateTempAudio
    \/ ExtractAudio
    \/ Transcribe
    \/ DeriveName
    \/ ChooseOutputPath
    \/ RunVad
    \/ CleanupAudio
    \/ MergeStep
    \/ PadStep
    \/ KeepStartMain
    \/ PvGetEncoderArgs
    \/ PvBuildFilter
    \/ PvWriteFilterScript
    \/ PvRunEncode
    \/ PvCleanup
    \/ SaveTranscript
    \/ FinalStats

SpecMain == MainInit /\ [][MainNext]_vars

\* ------------------------------------------------------------------------
\* One process calling get_encoder_args repeatedly
\* ------------------------------------------------------------------------
EncInit == TimelineIdle /\ NameIdle /\ EncoderInit /\ MainIdle

CallGetEncoderArgs ==
    /\ Len(enc_returns) < MaxCalls
    /\ \E outcome \in ProbeOutcomes : get_encoder_args(outcome)
    /\ UNCHANGED <<tlVars, nmVars, objVars, mainVars>>

EncNext == CallGetEncoderArgs

SpecEncoder == EncInit /\ [][EncNext]_vars

\* ------------------------------------------------------------------------
\* The timeline stages of main, on list objects (lines 500-513)
\* ------------------------------------------------------------------------
\* Each stage reads the list speech_segments refers to.  A function that
\* builds and returns a list allocates a new object; an item assignment
\* changes the object in place.
StagesInit ==
    /\ TimelineIdle
    /\ EncoderInit
    /\ MainIdle
    /\ nm_transcript = NoTranscript
    /\ nm_max_words = 0
    /\ nm_op = "none"
    /\ nm_name = <<>>
    /\ \E vad \in Timelines \ {<<>>} : heap = <<vad>>
    /\ speech_segments_ref = 1
    /\ stage_pc = "merge"
    /\ stage_log = <<>>

\* A stage that binds speech_segments to the list a function returned.
Rebind(stage, result, next) ==
    /\ heap' = Append(heap, result)
    /\ speech_segments_ref' = Len(heap) + 1
    /\ stage_log' = Append(stage_log,
                           [stage |-> stage, in_ref |-> speech_segments_ref,
                            in_before |-> heap[speech_segments_ref],
                            out_ref |-> Len(heap) + 1])
    /\ stage_pc' = next

\* Line 501: speech_segments = merge_close_segments(speech_segments, args.merge_gap);
\* the function returns [] or the list `merged` it built.
StageMerge ==
    /\ stage_pc = "merge"
    /\ \E max_gap \in 0..MaxGap :
          Rebind("merge", merge_close_segments(heap[speech_segments_ref], max_gap), "pad")
    /\ UNCHANGED <<tlVars, nmVars, encVars, mainVars>>

\* Lines 505-506: speech_segments = add_padding(speech_segments, padding_s, duration);
\* the function returns [] or the list `merged` it built.
StagePad ==
    /\ stage_pc = "pad"
    /\ \E padding_s \in 0..MaxPad, duration \in 1..MaxDur :
          /\ \A i \in 1..Len(heap[speech_segments_ref]) :
                heap[speech_segments_ref][i][2] <= duration
          /\ Rebind("pad", add_padding(heap[speech_segments_ref], padding_s, duration),
                    "keep_start")
    /\ UNCHANGED <<tlVars, nmVars, encVars, mainVars>>

\* Lines 510-513: speech_segments[0] = (0.0, first_end) assigns into the list
\* speech_segments refers to; the variable is not rebound.
StageKeepStart ==
    /\ stage_pc = "keep_start"
    /\ \E keep_start \in BOOLEAN :
          heap' = [heap EXCEPT ![speech_segments_ref] = KeepStartStep(@, keep_start)]
    /\ stage_log' = Append(stage_log,
                           [stage |-> "keep_start", in_ref |-> speech_segments_ref,
                            in_before |-> heap[speech_segments_ref],
                            out_ref |-> speech_segments_ref])
    /\ stage_pc' = "done"
    /\ UNCHANGED <<speech_segments_ref, tlVars, nmVars, encVars, mainVars>>

StagesNext == StageMerge \/ StagePad \/ StageKeepStart

SpecStages == StagesInit /\ [][StagesNext]_vars

\* ------------------------------------------------------------------------
\* merge_close_segments applied to any sequence ordered by start
\* ------------------------------------------------------------------------
\* Sequences of intervals in order of start, overlapping and nested ones
\* included.
RECURSIVE StartOrderedOfLen(_)
StartOrderedOfLen(n) ==
    IF n = 0 THEN {<<>>}
    ELSE UNION {{Append(tl, iv) :
                    iv \in {x \in Intervals : tl = <<>> \/ tl[Len(tl)][1] <= x[1]}} :
                tl \in StartOrderedOfLen(n - 1)}

StartOrdered == UNION {StartOrderedOfLen(n) : n \in 0..MaxLen}

OrderedInit ==
    /\ tl_in \in StartOrdered
    /\ tl_gap = 0
    /\ tl_pad = 0
    /\ tl_dur = 1
    /\ tl_keep = FALSE
    /\ tl_op = "none"
    /\ tl_out = <<>>
    /\ tl_transitions = FALSE
    /\ tl_graph = <<>>
    /\ NameIdle
    /\ EncoderInit
    /\ MainIdle

OrderedNext == CallMerge

SpecMergeOrdered == OrderedInit /\ [][OrderedNext]_vars

\* ------------------------------------------------------------------------
\* generate_smart_filename applied to any transcript
\* ------------------------------------------------------------------------
NameInit ==
    /\ TimelineIdle
    /\ EncoderInit
    /\ MainIdle
    /\ nm_transcript \in Transcripts
    /\ nm_max_words = 0
    /\ nm_op = "none"
    /\ nm_name = <<>>
    /\ heap = <<>>
    /\ speech_segments_ref = 0
    /\ stage_pc = "idle"
    /\ stage_log = <<>>

\* generate_smart_filename(nm_transcript, max_words)
CallGenerateSmartFilename ==
    /\ nm_op = "none"
    /\ \E max_words \in -1..MaxWords :
          /\ nm_max_words' = max_words
          /\ nm_name' = generate_smart_filename(nm_transcript, max_words)
    /\ nm_op' = "name"
    /\ UNCHANGED <<nm_transcript, tlVars, objVars, encVars, mainVars>>

NameNext == CallGenerateSmartFilename

SpecNaming == NameInit /\ [][NameNext]_vars

\* ------------------------------------------------------------------------
\* Claims about the encoder profile selector
\* ------------------------------------------------------------------------
\* C8: across the get_encoder_args calls of one process the probe runs at most
\* once: the cache is written exactly once, on the first call, whatever the
\* probe did, and every later call returns the first call's profile.
C8_ProbeOnce ==
    /\ Len(probe_log) <= 1
    /\ cache_writes <= 1
    /\ enc_returns # <<>> =>
          /\ Len(probe_log) = 1
          /\ cache_writes = 1
          /\ hardware_encoder_available # "None"
          /\ \A i \in 1..Len(enc_returns) : enc_returns[i] = enc_returns[1]

\* Three calls after a first call whose probe timed out.
C8_Witness ==
    /\ Len(enc_returns) >= 3
    /\ probe_log[1].kind = "timeout"
    /\ hardware_encoder_available = "False"

ProbeFailed(outcome) ==
    \/ outcome.kind \in {"timeout", "exception"}
    \/ outcome.kind = "returned" /\ outcome.returncode # 0

\* C9: whenever the probe raised, timed out or returned a non-zero status,
\* get_encoder_args returns the software profile, never the hardware profile.
C9_FailedProbeGivesSoftware ==
    \A i \in 1..Len(enc_returns) :
        ProbeFailed(probe_log[1]) => enc_returns[i] = SoftwareArgs

\* ------------------------------------------------------------------------
\* Claims about the timeline operations
\* ------------------------------------------------------------------------
EndsWithin(tl, duration) == \A i \in 1..Len(tl) : tl[i][2] <= duration

\* C1 as stated: every timeline produced by merge_close_segments, add_padding
\* or the force-start step from a valid timeline, with pad_seconds >= 0 and
\* any duration > 0, is a valid timeline.
C1_AnyDuration ==
    (tl_op # "none" /\ ValidTimeline(tl_in) /\ tl_pad >= 0 /\ tl_dur > 0)
        => ValidTimeline(tl_out)

\* C1 amended: every timeline produced by merge_close_segments, by add_padding
\* or by the force-start step from a valid timeline is a valid timeline,
\* where for add_padding pad_seconds >= 0 and no interval ends after duration.
C1_ValidTimeline ==
    (/\ tl_op # "none"
     /\ ValidTimeline(tl_in)
     /\ tl_pad >= 0
     /\ tl_dur > 0
     /\ (tl_op = "pad" => EndsWithin(tl_in, tl_dur)))
        => ValidTimeline(tl_out)

\* A padded timeline whose first start was clamped at 0 and whose intervals
\* coalesced.
C1_Witness ==
    /\ tl_op = "pad"
    /\ Len(tl_in) = 3
    /\ EndsWithin(tl_in, tl_dur)
    /\ tl_in[1][1] < tl_pad
    /\ Len(tl_out) = 2

\* The sweep C2 describes, as a function of the input: interval i opens a new
\* group iff its start is more than max_gap after the end of the group before
\* it, which is the end of interval i-1; a group spans from the start of its
\* first interval to the end of its last.
SweepGroup(tl, i, max_gap) ==
    1 + Cardinality({j \in 2..i : tl[j][1] - tl[j - 1][2] > max_gap})

SweepMerge(tl, max_gap) ==
    IF tl = <<>> THEN <<>>
    ELSE [k \in 1..SweepGroup(tl, Len(tl), max_gap) |->
            LET members == {i \in 1..Len(tl) : SweepGroup(tl, i, max_gap) = k}
                first == CHOOSE i \in members : \A j \in members : i <= j
                last == CHOOSE i \in members : \A j \in members : j <= i
            IN <<tl[first][1], tl[last][2]>>]

\* C2: merge_close_segments is the single left-to-right sweep that merges an
\* interval into the immediately preceding group iff its gap to that group's
\* end is <= max_gap; empty gives empty; the two examples (in tenths of a
\* second).
C2_MergeIsSweep ==
    /\ tl_op = "merge" => tl_out = SweepMerge(tl_in, tl_gap)
    /\ tl_op = "merge" /\ tl_in = <<>> => tl_out = <<>>
    /\ merge_close_segments(<<>>, tl_gap) = <<>>
    /\ merge_close_segments(<< <<0, 10>>, <<12, 20>> >>, 3) = << <<0, 20>> >>
    /\ merge_close_segments(<< <<0, 10>>, <<12, 20>> >>, 1)
          = << <<0, 10>>, <<12, 20>> >>

\* Three intervals of which two merged and one opened a new group, with a gap
\* exactly equal to max_gap among the merged.
C2_Witness ==
    /\ tl_op = "merge"
    /\ Len(tl_in) = 3
    /\ Len(tl_out) = 2
    /\ \E i \in 2..3 : tl_in[i][1] - tl_in[i - 1][2] = tl_gap

\* The coalescing C3 describes, as a function of the padded list: run[i] is
\* (group of interval i, end of that group after interval i joined it).
CoalesceRun(padded) ==
    LET run[i \in 1..Len(padded)] ==
            IF i = 1 THEN <<1, padded[1][2]>>
            ELSE IF padded[i][1] <= run[i - 1][2]
                 THEN <<run[i - 1][1], Max(run[i - 1][2], padded[i][2])>>
                 ELSE <<run[i - 1][1] + 1, padded[i][2]>>
    IN run

SweepCoalesce(padded) ==
    IF padded = <<>> THEN <<>>
    ELSE LET run == CoalesceRun(padded)
         IN [k \in 1..run[Len(padded)][1] |->
                LET members == {i \in 1..Len(padded) : run[i][1] = k}
                    first == CHOOSE i \in members : \A j \in members : i <= j
                    last == CHOOSE i \in members : \A j \in members : j <= i
                IN <<padded[first][1], run[last][2]>>]

\* C3: add_padding maps (s,e) to (max(0, s - pad), min(duration, e + pad)) and
\* then coalesces left to right (start <= previous end merges, end = max of
\* the ends); empty gives empty, one interval gives one interval; the three
\* examples (in tenths of a second).
C3_PadThenCoalesce ==
    /\ tl_op = "pad" =>
          /\ tl_out = SweepCoalesce(
                 [i \in 1..Len(tl_in) |->
                     <<Max(0, tl_in[i][1] - tl_pad), Min(tl_dur, tl_in[i][2] + tl_pad)>>])
          /\ tl_in = <<>> => tl_out = <<>>
          /\ Len(tl_in) = 1 => Len(tl_out) = 1
    /\ add_padding(<< <<50, 60>> >>, 10, 100) = << <<40, 70>> >>
    /\ add_padding(<< <<0, 10>> >>, 20, 100) = << <<0, 30>> >>
    /\ add_padding(<< <<10, 20>>, <<25, 30>> >>, 5, 100) = << <<5, 35>> >>

\* A padded timeline in which two padded intervals exactly touch and coalesce
\* while a third stays apart, and the last end is clamped at duration.
C3_Witness ==
    /\ tl_op = "pad"
    /\ Len(tl_in) = 3
    /\ EndsWithin(tl_in, tl_dur)
    /\ Len(tl_out) = 2
    /\ \E i \in 2..3 : tl_in[i][1] - tl_pad = tl_in[i - 1][2] + tl_pad
    /\ tl_out[2][2] = tl_dur
    /\ tl_in[3][2] + tl_pad > tl_dur

\* ------------------------------------------------------------------------
\* Claims about the filter graph builder
\* ------------------------------------------------------------------------
\* C10: with transitions disabled the graph of n intervals is n video trim
\* statements (interval i -> [v i]), then n audio atrim statements (interval
\* i -> [a i]), each carrying the six-decimal rendering of interval i's own
\* start and end and resetting its timestamp, then exactly one concat with n
\* inputs listing [v0][a0] ... [v n-1][a n-1] in order into [outv][outa].
C10_TrimConcat ==
    (tl_op = "build" /\ ~tl_transitions) =>
        LET n == Len(tl_in)
            g == tl_graph
        IN /\ Len(g) = 2 * n + 1
           /\ \A i \in 0..(n - 1) :
                 /\ g[i + 1].filter = "trim"
                 /\ g[i + 1].ins = << <<"0:v">> >>
                 /\ g[i + 1].outs = << <<"v", i>> >>
                 /\ g[i + 1].start = Fmt6(tl_in[i + 1][1])
                 /\ g[i + 1].end = Fmt6(tl_in[i + 1][2])
                 /\ g[i + 1].reset = "setpts=PTS-STARTPTS"
                 /\ g[n + i + 1].filter = "atrim"
                 /\ g[n + i + 1].ins = << <<"0:a">> >>
                 /\ g[n + i + 1].outs = << <<"a", i>> >>
                 /\ g[n + i + 1].start = Fmt6(tl_in[i + 1][1])
                 /\ g[n + i + 1].end = Fmt6(tl_in[i + 1][2])
                 /\ g[n + i + 1].reset = "asetpts=PTS-STARTPTS"
           /\ g[2 * n + 1].filter = "concat"
           /\ g[2 * n + 1].n = n
           /\ Len(g[2 * n + 1].ins) = 2 * n
           /\ \A i \in 0..(n - 1) :
                 /\ g[2 * n + 1].ins[2 * i + 1] = <<"v", i>>
                 /\ g[2 * n + 1].ins[2 * i + 2] = <<"a", i>>
           /\ g[2 * n + 1].outs = << <<"outv">>, <<"outa">> >>
           /\ Cardinality({k \in 1..Len(g) : g[k].filter = "concat"}) = 1

\* A three-interval timeline built without transitions, whose intervals render
\* to three different (start, end) pairs.
C10_Witness ==
    /\ tl_op = "build"
    /\ ~tl_transitions
    /\ Len(tl_in) = 3
    /\ Len(tl_graph) = 7
    /\ tl_graph[1].start # tl_graph[2].start
    /\ tl_graph[2].start # tl_graph[3].start

\* The timeline as C10 describes its graph without transitions.
TrimConcatGraph(tl) ==
    LET n == Len(tl)
    IN [k \in 1..(2 * n + 1) |->
          IF k <= n
          THEN [ins |-> << <<"0:v">> >>, filter |-> "trim", start |-> Fmt6(tl[k][1]),
                end |-> Fmt6(tl[k][2]), reset |-> "setpts=PTS-STARTPTS",
                outs |-> << <<"v", k - 1>> >>]
          ELSE IF k <= 2 * n
          THEN [ins |-> << <<"0:a">> >>, filter |-> "atrim", start |-> Fmt6(tl[k - n][1]),
                end |-> Fmt6(tl[k - n][2]), reset |-> "asetpts=PTS-STARTPTS",
                outs |-> << <<"a", k - n - 1>> >>]
          ELSE [ins |-> [j \in 1..(2 * n) |-> IF j % 2 = 1 THEN <<"v", (j - 1) \div 2>>
                                              ELSE <<"a", (j - 2) \div 2>>],
                filter |-> "concat", n |-> n, v |-> 1, a |-> 1,
                outs |-> << <<"outv">>, <<"outa">> >>]]

\* C11: for a timeline of at most one interval the graph built with
\* transitions enabled is the graph built with transitions disabled, and it
\* holds no cross-fade statement.
C11_FallbackForShortTimelines ==
    (tl_op = "build" /\ Len(tl_in) <= 1) =>
        /\ tl_graph = TrimConcatGraph(tl_in)
        /\ build_trim_concat_filter(tl_in, TRUE) = build_trim_concat_filter(tl_in, FALSE)
        /\ \A k \in 1..Len(tl_graph) : tl_graph[k].filter \notin {"xfade", "acrossfade"}

\* A single-interval timeline built with transitions enabled.
C11_Witness ==
    /\ tl_op = "build"
    /\ tl_transitions
    /\ Len(tl_in) = 1
    /\ Len(tl_graph) = 3
    /\ tl_graph[3].filter = "concat"

\* C12: with transitions enabled and n > 1 intervals the graph holds, after
\* the 2n trims, exactly n-1 video and n-1 audio cross-fade stages; stage i
\* reads the output of stage i-1 (segment 0's port for i = 1) and segment i's
\* port, and only the last stage of each chain writes [outv] / [outa].
C12_CrossfadeChain ==
    (tl_op = "build" /\ tl_transitions /\ Len(tl_in) > 1) =>
        LET n == Len(tl_in)
            g == tl_graph
            xv(i) == g[2 * n + i]
            xa(i) == g[2 * n + (n - 1) + i]
        IN /\ Len(g) = 2 * n + 2 * (n - 1)
           /\ Cardinality({k \in 1..Len(g) : g[k].filter = "xfade"}) = n - 1
           /\ Cardinality({k \in 1..Len(g) : g[k].filter = "acrossfade"}) = n - 1
           /\ \A k \in 1..Len(g) : g[k].filter # "concat"
           /\ \A i \in 1..(n - 1) :
                 /\ xv(i).filter = "xfade"
                 /\ xv(i).ins = <<IF i = 1 THEN <<"v", 0>> ELSE xv(i - 1).outs[1], <<"v", i>> >>
                 /\ Len(xv(i).outs) = 1
                 /\ (xv(i).outs[1] = <<"outv">>) <=> (i = n - 1)
                 /\ \A j \in 1..(i - 1) : xv(j).outs # xv(i).outs
                 /\ xa(i).filter = "acrossfade"
                 /\ xa(i).ins = <<IF i = 1 THEN <<"a", 0>> ELSE xa(i - 1).outs[1], <<"a", i>> >>
                 /\ Len(xa(i).outs) = 1
                 /\ (xa(i).outs[1] = <<"outa">>) <=> (i = n - 1)
                 /\ \A j \in 1..(i - 1) : xa(j).outs # xa(i).outs
           /\ \A k \in 1..(2 * n) : g[k] = TrimConcatGraph(tl_in)[k]

\* A three-interval timeline built with transitions: two stages per chain.
C12_Witness ==
    /\ tl_op = "build"
    /\ tl_transitions
    /\ Len(tl_in) = 3
    /\ Len(tl_graph) = 10
    /\ tl_graph[8].ins = << <<"xv", 1>>, <<"v", 2>> >>
    /\ tl_graph[8].outs = << <<"outv">> >>

\* The rendered length, in ticks, of the chain after video stage i has folded
\* segments 0..i together with cross-fades of TransitionDurationMs.
RECURSIVE ChainDuration(_, _)
ChainDuration(tl, i) ==
    IF i = 0 THEN tl[1][2] - tl[1][1]
    ELSE ChainDuration(tl, i - 1) + (tl[i + 1][2] - tl[i + 1][1])
            - TransitionDurationMs * TicksPerMs

\* C13: with transitions enabled and n > 1 intervals the offset of video
\* cross-fade stage i is the rendered length of the chain built so far
\* (segments 0..i-1 with their overlaps) minus the cross-fade duration.
C13_OffsetFromChainDuration ==
    (tl_op = "build" /\ tl_transitions /\ Len(tl_in) > 1) =>
        \A i \in 1..(Len(tl_in) - 1) :
            tl_graph[2 * Len(tl_in) + i].offset_ms * TicksPerMs
                = ChainDuration(tl_in, i - 1) - TransitionDurationMs * TicksPerMs


\* ------------------------------------------------------------------------
\* Claims about generate_smart_filename
\* ------------------------------------------------------------------------
\* C18: for every transcript (missing, empty, punctuation only, beginning with
\* a sentence terminator, ...) and every max_words the name returned is not
\* empty and is either the timestamp fallback or a string of at most 50
\* characters, all of them in [a-z0-9_].
C18_NameIsSafe ==
    nm_op = "name" =>
        /\ nm_name # <<>>
        /\ \/ nm_name = TimestampName
           \/ /\ Len(nm_name) <= 50
              /\ \A i \in 1..Len(nm_name) : nm_name[i] \in Letters \cup Digits \cup {"_"}

\* A name that was cut to 50 characters.
C18_Witness ==
    /\ nm_op = "name"
    /\ nm_name # TimestampName
    /\ Len(nm_name) = 50
    /\ Len(nm_transcript.text) > 50

\* A transcript beginning with a sentence terminator: the fallback name.
C18_WitnessTerminator ==
    /\ nm_op = "name"
    /\ Len(nm_transcript.text) >= 10
    /\ nm_transcript.text[1] = "."
    /\ nm_name = TimestampName

\* The text without the blanks around it.
Trimmed(text) ==
    LET inked == {i \in 1..Len(text) : text[i] # " "}
    IN IF inked = {} THEN <<>>
       ELSE SubSeq(text, CHOOSE i \in inked : \A j \in inked : i <= j,
                         CHOOSE i \in inked : \A j \in inked : j <= i)

\* The first sentence: what precedes the first of . ! ? in the trimmed text.
FirstSentenceOf(text) ==
    LET t == Trimmed(text)
        stops == {i \in 1..Len(t) : t[i] \in {".", "!", "?"}}
    IN IF stops = {} THEN t
       ELSE Trimmed(SubSeq(t, 1, (CHOOSE i \in stops : \A j \in stops : i <= j) - 1))

\* The alphabetic tokens of a sentence, in order: the runs of letters bounded
\* on both sides by the ends of the sentence or by a character that is neither
\* a letter, a digit nor an underscore.
AlphabeticTokens(sentence) ==
    LET n == Len(sentence)
        IsLetter(i) == sentence[i] \in Letters \cup DOMAIN UpperToLower
        Bound(i) == i < 1 \/ i > n \/ sentence[i] \notin WordChars
        starts == {i \in 1..n : IsLetter(i) /\ Bound(i - 1)}
        EndOf(i) == CHOOSE j \in i..n :
                        /\ \A k \in i..j : IsLetter(k)
                        /\ j = n \/ ~IsLetter(j + 1)
        good == {i \in starts : Bound(EndOf(i) + 1)}
    IN [k \in 1..Cardinality(good) |->
           LET i == CHOOSE g \in good : Cardinality({h \in good : h < g}) = k - 1
           IN Lower(SubSeq(sentence, i, EndOf(i)))]

First(n, seq) == SubSeq(seq, 1, Min(n, Len(seq)))

RECURSIVE UnderscoreJoin(_)
UnderscoreJoin(tokens) ==
    IF tokens = <<>> THEN <<>>
    ELSE IF Len(tokens) = 1 THEN tokens[1]
    ELSE tokens[1] \o <<"_">> \o UnderscoreJoin(Tail(tokens))

\* The tokens C19 selects: the meaningful ones, the raw ones when none is
\* meaningful.
SelectedTokens(text) ==
    LET raw == AlphabeticTokens(FirstSentenceOf(text))
        meaningful == SelectSeq(raw, LAMBDA w : Len(w) >= 3 /\ w \notin stop_words)
    IN IF meaningful # <<>> THEN meaningful ELSE raw

\* C19 as stated: below the threshold the timestamp fallback, otherwise the
\* underscore-join of the first max_words selected tokens.
C19_AsStated ==
    nm_op = "name" =>
        IF nm_transcript.none \/ Len(Trimmed(nm_transcript.text)) < 10
        THEN nm_name = TimestampName
        ELSE nm_name = UnderscoreJoin(First(nm_max_words, SelectedTokens(nm_transcript.text)))

\* C19, amended: for max_words >= 0, a missing transcript or one of fewer than
\* 10 characters (blanks around it not counted) gives the timestamp fallback;
\* otherwise the name is the first 50 characters of the underscore-join of the
\* first max_words selected tokens, and the timestamp fallback when there is no
\* token to join.  ("The quick brown fox jumps.", 3) gives quick_brown_fox.
C19_NameFromFirstSentence ==
    /\ (nm_op = "name" /\ nm_max_words >= 0) =>
          IF nm_transcript.none \/ Len(Trimmed(nm_transcript.text)) < 10
          THEN nm_name = TimestampName
          ELSE LET chosen == First(nm_max_words, SelectedTokens(nm_transcript.text))
               IN IF chosen = <<>> THEN nm_name = TimestampName
                  ELSE nm_name = First(50, UnderscoreJoin(chosen))
    /\ generate_smart_filename([none |-> FALSE, text |-> ExampleText], 3)
          = <<"q", "u", "i", "c", "k", "_", "b", "r", "o", "w", "n", "_", "f", "o", "x">>

\* A name made of raw tokens because no token of the first sentence is
\* meaningful, from a transcript of several sentences.
C19_Witness ==
    /\ nm_op = "name"
    /\ nm_max_words = 2
    /\ nm_name = <<"i", "t", "_", "s">>
    /\ \E i \in 1..Len(nm_transcript.text) : nm_transcript.text[i] = "."

\* The example of C19.
C19_WitnessExample ==
    /\ nm_op = "name"
    /\ nm_transcript.text = ExampleText
    /\ nm_max_words = 3
    /\ nm_name = <<"q", "u", "i", "c", "k", "_", "b", "r", "o", "w", "n", "_", "f", "o", "x">>

\* ------------------------------------------------------------------------
\* Claims about main
\* ------------------------------------------------------------------------
Happened(e) == \E i \in 1..Len(events) : events[i] = e

\* C4: the force-start step turns a first interval (s, e) with s > 0 into
\* (0, e) when the toggle is on and leaves every other interval as it was; with
\* the first start already 0, the toggle off or an empty timeline nothing
\* changes; so with the toggle on a non-empty timeline handed to the graph
\* builder and to the encoder starts at 0.
C4_KeepStartFrame ==
    /\ Happened("keep_start") =>
          LET before == loc.padded_segments
              after == loc.speech_segments
          IN /\ IF args.keep_start /\ before # <<>> /\ before[1][1] > 0
                THEN /\ Len(after) = Len(before)
                     /\ after[1] = <<0, before[1][2]>>
                     /\ \A i \in 2..Len(before) : after[i] = before[i]
                ELSE after = before
             /\ (args.keep_start /\ after # <<>>) => after[1][1] = 0
    /\ \A k \in 1..Len(encode_calls) :
          /\ encode_calls[k].segments = loc.speech_segments
          /\ args.keep_start /\ encode_calls[k].segments # <<>>
                => encode_calls[k].segments[1][1] = 0
    /\ \A keep_start \in BOOLEAN : KeepStartStep(<<>>, keep_start) = <<>>
    /\ KeepStartStep(<< <<2, 5>>, <<6, 7>> >>, TRUE) = << <<0, 5>>, <<6, 7>> >>
    /\ KeepStartStep(<< <<2, 5>>, <<6, 7>> >>, FALSE) = << <<2, 5>>, <<6, 7>> >>

\* The graph is being built from a two-interval timeline whose first interval
\* was moved to 0.
C4_Witness ==
    /\ pc = "pv_build"
    /\ args.keep_start
    /\ Len(loc.padded_segments) = 2
    /\ loc.padded_segments[1][1] > 0
    /\ loc.speech_segments[1][1] = 0
    /\ loc.speech_segments[2] = loc.padded_segments[2]

\* The statements of graph g that write the port.
Producers(g, port) ==
    {k \in 1..Len(g) : \E j \in 1..Len(g[k].outs) : g[k].outs[j] = port}

\* The statements of graph g that read the port.
Consumers(g, port) ==
    {k \in 1..Len(g) : \E j \in 1..Len(g[k].ins) : g[k].ins[j] = port}

\* g is base with the enhancement spliced onto the statement writing [outa].
EnhancementSpliced(g, base) ==
    /\ Cardinality(Producers(base, <<"outa">>)) = 1
    /\ LET p == CHOOSE k \in Producers(base, <<"outa">>) : TRUE
       IN /\ Len(g) = Len(base) + 1
          /\ Producers(g, <<"outa_pre">>) = {p}
          /\ Consumers(g, <<"outa_pre">>) = {p + 1}
          /\ Producers(g, <<"outa">>) = {p + 1}
          /\ {k \in 1..Len(g) : g[k].filter = "enhance"} = {p + 1}
          /\ g[p + 1].ins = << <<"outa_pre">> >>
          /\ g[p + 1].outs = << <<"outa">> >>
          /\ g[p + 1].chain = <<"highpass=f=80", "lowpass=f=12000",
                                "equalizer=f=200:t=q:w=1:g=-1", "equalizer=f=3000:t=q:w=1:g=2",
                                "acompressor=threshold=-20dB:ratio=3:attack=5:release=50",
                                "loudnorm=I=-16:TP=-1.5:LRA=11">>
          /\ g[p].filter = base[p].filter
          /\ g[p].ins = base[p].ins
          /\ Len(g[p].outs) = Len(base[p].outs)
          /\ \A j \in 1..Len(base[p].outs) :
                g[p].outs[j] = IF base[p].outs[j] = <<"outa">> THEN <<"outa_pre">>
                               ELSE base[p].outs[j]
          /\ \A k \in 1..(p - 1) : g[k] = base[k]
          /\ \A k \in (p + 2)..Len(g) : g[k] = base[k - 1]
          /\ Producers(g, <<"outv">>) = Producers(base, <<"outv">>)
          /\ Cardinality(Producers(g, <<"outv">>)) = 1

\* C14: with audio enhancement enabled, in the graph handed to the encoder the
\* statement that wrote [outa] writes an intermediate port, exactly one
\* enhancement chain reads that port and writes [outa], [outa] is written
\* exactly once and the video statements and [outv] are unchanged; with
\* enhancement disabled the graph is the builder's output.
C14_EnhancementSplice ==
    \A c \in 1..Len(encode_calls) :
        LET g == encode_calls[c].graph
            base == build_trim_concat_filter(encode_calls[c].segments, args.add_transitions)
        IN /\ Len(encode_calls[c].segments) >= 1
           /\ IF args.enhance_audio THEN EnhancementSpliced(g, base) ELSE g = base

\* An encode call with enhancement on the cross-fade path.
C14_Witness ==
    /\ Len(encode_calls) = 1
    /\ args.enhance_audio
    /\ args.add_transitions
    /\ Len(encode_calls[1].segments) = 2
    /\ Len(encode_calls[1].graph) = 7
    /\ encode_calls[1].graph[6].outs = << <<"outa_pre">> >>

\* An encode call with enhancement on the concat path.
C14_WitnessConcat ==
    /\ Len(encode_calls) = 1
    /\ args.enhance_audio
    /\ ~args.add_transitions
    /\ Len(encode_calls[1].graph) = 2 * Len(encode_calls[1].segments) + 2

\* The stages of a run, numbered in the order C15 lists them.
StageRank ==
    [get_duration |-> 1, create_temp_audio |-> 2, extract_audio |-> 3,
     transcribe_video |-> 4, generate_smart_filename |-> 5, vad |-> 6, merge |-> 7,
     pad |-> 8, keep_start |-> 9, build_filter |-> 10, encode |-> 11,
     save_transcript |-> 12, get_duration_output |-> 13]

\* The stages every run passes through in turn, optional ones left out.
MandatoryStages ==
    <<"get_duration", "create_temp_audio", "extract_audio", "vad", "merge", "pad",
      "keep_start", "build_filter", "encode", "get_duration_output">>

\* merge, then pad, then force-start, stated without the program's loops.
FinalTimeline(vad, merge_gap, padding_s, duration, keep_start) ==
    LET merged == SweepMerge(vad, merge_gap)
        padded == SweepCoalesce([i \in 1..Len(merged) |->
                                    <<Max(0, merged[i][1] - padding_s),
                                      Min(duration, merged[i][2] + padding_s)>>])
    IN IF keep_start /\ padded # <<>> /\ padded[1][1] > 0
       THEN [i \in 1..Len(padded) |-> IF i = 1 THEN <<0, padded[1][2]>> ELSE padded[i]]
       ELSE padded

\* C15: the stages of a run happen in the listed order, each at most once
\* (duration probe, temporary-audio creation, extraction, optional
\* transcription and name derivation, VAD, merge, pad, force-start, graph build,
\* encode, optional transcript persistence, summary), no stage without the
\* mandatory stages before it, and the encode collaborator is only invoked with
\* force-start(pad(merge(VAD intervals))).
C15_StageOrder ==
    LET IsStage(e) == e \in DOMAIN StageRank
        stages == SelectSeq(events, IsStage)
        ranks == [k \in DOMAIN stages |-> StageRank[stages[k]]]
        done == {ranks[k] : k \in DOMAIN ranks}
        Did(e) == StageRank[e] \in done
    IN /\ \A k \in 2..Len(ranks) : ranks[k - 1] < ranks[k]
       /\ \A k \in 2..Len(MandatoryStages) :
             Did(MandatoryStages[k]) => Did(MandatoryStages[k - 1])
       /\ Did("transcribe_video") => Did("extract_audio") /\ ~args.no_transcribe
       /\ Did("generate_smart_filename") => Did("transcribe_video")
       /\ Did("vad") /\ ~args.no_transcribe => Did("generate_smart_filename")
       /\ Did("save_transcript") =>
             Did("encode") /\ Did("transcribe_video") /\ args.save_transcript
       /\ Len(encode_calls) <= 1
       /\ Len(encode_calls) = 1 <=> Did("encode")
       /\ \A c \in 1..Len(encode_calls) :
             /\ encode_calls[c].segments =
                   FinalTimeline(loc.vad_segments, args.merge_gap,
                                 args.padding * TicksPerMs, loc.duration, args.keep_start)
             /\ encode_calls[c].graph =
                   FilterComplex(encode_calls[c].segments, args.enhance_audio,
                                 args.add_transitions)

\* A complete run with transcription and transcript persistence in which
\* merging, padding and the force-start step each changed the timeline.
C15_Witness ==
    /\ pc = "done"
    /\ exit_status = 0
    /\ Happened("transcribe_video")
    /\ Happened("save_transcript")
    /\ Happened("get_duration_output")
    /\ Len(loc.vad_segments) = 2
    /\ args.padding > 0
    /\ args.keep_start
    /\ loc.vad_segments[1][1] > TicksPerMs
    /\ Len(encode_calls) = 1
    /\ encode_calls[1].segments # loc.vad_segments
    /\ encode_calls[1].segments[1][1] = 0

\* C16: when the input path does not exist main exits non-zero having attempted
\* no work: no collaborator is invoked, no temporary file, output directory or
\* output file is created.
C16_MissingInputNoWork ==
    ~input_exists =>
        /\ pc \in {"start", "done"}
        /\ \A i \in 1..Len(events) : events[i] = "print:input_not_found"
        /\ fs = [outdir |-> FALSE, audio |-> FALSE, audio_created |-> FALSE,
                 filter |-> FALSE, filter_created |-> FALSE, output |-> "absent",
                 transcript_json |-> FALSE, transcript_txt |-> FALSE]
        /\ encode_calls = <<>>
        /\ probe_log = <<>>
        /\ enc_returns = <<>>
        /\ pc = "done" => exit_status = 1 /\ ~uncaught /\ events = <<"print:input_not_found">>

\* A finished run whose input did not exist.
C16_Witness ==
    /\ ~input_exists
    /\ pc = "done"
    /\ exit_status = 1
    /\ events = <<"print:input_not_found">>

\* The three conditions C17 names: the input exists, VAD returned at least one
\* interval, the encode collaborator returned status 0.
RunSucceeded ==
    /\ input_exists
    /\ loc.vad_result = "segments"
    /\ diag.returncode = 0

\* C17 as stated: main's exit status is 0 if and only if the input exists, VAD
\* returned at least one interval and the encode collaborator succeeded.
C17_ExitZeroIffSucceeded ==
    pc = "done" => (exit_status = 0 <=> RunSucceeded)

\* C17, amended: main's exit status is 0 if and only if the input exists, VAD
\* returned at least one interval, the encode collaborator succeeded and no
\* exception ended the run afterwards (filter-script cleanup aside, that is
\* transcript persistence and the summary's duration probe); it is non-zero when
\* the input is missing, when no speech is detected and when the encode fails.
C17_ExitZeroIffNothingRaised ==
    pc = "done" =>
        /\ exit_status = 0 <=> (RunSucceeded /\ ~uncaught)
        /\ exit_status = 0 => Happened("get_duration_output") /\ fs.output = "complete"
        /\ ~input_exists => exit_status # 0
        /\ loc.vad_result = "empty" => exit_status # 0
        /\ (diag.returncode # -1 /\ diag.returncode # 0) => exit_status # 0

\* A run whose encode succeeded and whose transcript could not be saved: the
\* exit status is not 0.
C17_Witness ==
    /\ pc = "done"
    /\ RunSucceeded
    /\ uncaught
    /\ exit_status # 0
    /\ Happened("save_transcript")
    /\ ~Happened("get_duration_output")

\* A run that ended with status 0.
C17_WitnessZero ==
    /\ pc = "done"
    /\ exit_status = 0
    /\ RunSucceeded

Count(e) == Cardinality({i \in 1..Len(events) : events[i] = e})

\* C20: when a heavyweight dependency is missing, for transcription and for VAD
\* alike, the install step is attempted exactly once and the import retried; if
\* the install or the retried import fails the run aborts with the error,
\* without an encode call and with the temporary audio file deleted.
C20_InstallOnceThenRetry ==
    /\ Happened("ImportError:whisper") =>
          /\ Count("pip_install") = 1
          /\ Happened("pip_install:failed") \/ Count("import_whisper") = 2
          /\ (Happened("pip_install:failed") \/ Count("ImportError:whisper") = 2) =>
                /\ encode_calls = <<>>
                /\ pc \in {"finally_audio", "done"}
                /\ pc = "done" => uncaught /\ exit_status # 0 /\ ~fs.audio
    /\ Happened("ImportError:torch") =>
          /\ Count("pip_install") = 1
          /\ encode_calls = <<>>
          /\ pc \in {"finally_audio", "done"}
          /\ pc = "done" => uncaught /\ exit_status # 0 /\ ~fs.audio

\* C20 for the transcription collaborator alone.
C20_WhisperInstallOnceThenRetry ==
    Happened("ImportError:whisper") =>
        /\ Count("pip_install") = 1
        /\ Happened("pip_install:failed") \/ Count("import_whisper") = 2
        /\ (Happened("pip_install:failed") \/ Count("ImportError:whisper") = 2) =>
              /\ encode_calls = <<>>
              /\ pc \in {"finally_audio", "done"}
              /\ pc = "done" => uncaught /\ exit_status # 0 /\ ~fs.audio

\* C5: a run in which VAD returned no speech interval never invokes the encode
\* collaborator and ends with a non-zero exit status.
C5_NoSpeechNoEncode ==
    loc.vad_result = "empty" =>
        /\ pc \in {"finally_audio", "done"}
        /\ encode_calls = <<>>
        /\ ~Happened("encode")
        /\ ~Happened("process_video")
        /\ pc = "done" => exit_status # 0 /\ exit_status # -1

\* A finished run in which VAD returned nothing.
C5_Witness ==
    /\ loc.vad_result = "empty"
    /\ pc = "done"
    /\ exit_status = 1
    /\ ~uncaught
    /\ Happened("print:no_speech")

\* C6: when the encode collaborator returns a non-zero status, its diagnostic
\* text is emitted cut to its first 1000 characters, process_video returns
\* False, main exits non-zero, and at the end of the run neither the temporary
\* audio file nor the temporary filter-spec file exists.
C6_EncodeFailure ==
    (diag.returncode # -1 /\ diag.returncode # 0) =>
        /\ Happened("print:ffmpeg_error")
        /\ diag.shown <= 1000
        /\ diag.shown <= diag.stderr_len
        /\ diag.stderr_len <= 1000 => diag.shown = diag.stderr_len
        /\ diag.stderr_len > 1000 => diag.shown = 1000
        /\ pc \in {"pv_finally", "done"}
        /\ pc = "done" =>
              /\ loc.success = "False"
              /\ exit_status # 0 /\ exit_status # -1
              /\ ~fs.audio
              /\ ~fs.filter

\* A finished run whose encode returned non-zero with more than 1000
\* characters of diagnostics, after both temporary files had been created.
C6_Witness ==
    /\ diag.returncode = 1
    /\ diag.stderr_len > 1000
    /\ pc = "done"
    /\ fs.audio_created
    /\ fs.filter_created
    /\ Happened("print:processing_failed")

\* C7: once the temporary audio file has been created it is gone when main
\* ends, on every exit path; it exists only inside the try block.
C7_AudioRemoved ==
    /\ (pc = "done" /\ fs.audio_created) => ~fs.audio
    /\ fs.audio => pc \in {"extract", "transcribe", "name", "output_path", "vad",
                           "finally_audio"}

\* A run ended by an exception of the VAD collaborator, after the temporary
\* audio file had been created and was still there when VAD was called.
C7_Witness ==
    /\ pc = "done"
    /\ fs.audio_created
    /\ uncaught
    /\ loc.vad_result = "raised"
    /\ ~fs.audio

\* ------------------------------------------------------------------------
\* Claims about the timeline stages as list objects
\* ------------------------------------------------------------------------
\* C21: each timeline stage (merge, pad, force-start) returns a fresh list and
\* leaves its input list as it was: after the stage the input object holds the
\* intervals it held before, and the output is another object.
C21_StagesProduceFreshTimelines ==
    \A k \in 1..Len(stage_log) :
        /\ heap[stage_log[k].in_ref] = stage_log[k].in_before
        /\ stage_log[k].out_ref # stage_log[k].in_ref

\* C21 for merge_close_segments and add_padding alone.
C21_MergeAndPadProduceFreshTimelines ==
    \A k \in 1..Len(stage_log) :
        stage_log[k].stage \in {"merge", "pad"} =>
            /\ stage_pc # "done" => heap[stage_log[k].in_ref] = stage_log[k].in_before
            /\ stage_log[k].out_ref # stage_log[k].in_ref

\* ------------------------------------------------------------------------
\* Claims about merge_close_segments on overlapping input
\* ------------------------------------------------------------------------
\* C28: for every input ordered by start, overlapping or nested intervals
\* included, and every max_gap, each input interval lies inside some interval
\* of merge_close_segments' output.
C28_MergeKeepsCoveredTime ==
    tl_op = "merge" =>
        \A i \in 1..Len(tl_in) :
            \E k \in 1..Len(tl_out) :
                tl_out[k][1] <= tl_in[i][1] /\ tl_in[i][2] <= tl_out[k][2]

\* ------------------------------------------------------------------------
\* Claims about main: temporary filter script, retries, transcript artifacts
\* ------------------------------------------------------------------------
\* C22: the temporary filter-spec file exists only inside process_video,
\* between its creation and the cleanup: once process_video has returned or
\* raised, on every path after the creation, the file is gone.
C22_FilterScriptRemoved ==
    /\ fs.filter => pc \in {"pv_encode", "pv_finally"}
    /\ (pc = "done" /\ fs.filter_created) => ~fs.filter

\* C22 for the paths that enter the try block of line 340.
C22_FilterScriptRemovedAfterTry ==
    (pc = "done" /\ fs.filter_created /\ Len(encode_calls) = 1) => ~fs.filter

\* C23: in one run the encode collaborator is invoked at most once and the
\* graph is built and handed over at most once; after a failed encode nothing
\* is tried again, with the same or with the other encoder profile.
C23_NoRetry ==
    /\ Len(encode_calls) <= 1
    /\ Count("encode") <= 1
    /\ Count("build_filter") <= 1
    /\ Count("process_video") <= 1
    /\ Len(enc_returns) <= 1
    /\ Len(probe_log) <= 1
    /\ (diag.returncode # -1 /\ diag.returncode # 0) =>
          /\ pc \in {"pv_finally", "done"}
          /\ Len(encode_calls) = 1
          /\ Count("encode") = 1

\* A finished run whose only encode call, with the hardware profile, failed.
C23_Witness ==
    /\ pc = "done"
    /\ diag.returncode = 1
    /\ Len(encode_calls) = 1
    /\ encode_calls[1].encoder_args = HardwareArgs
    /\ Len(enc_returns) = 1

\* C24: with the skip-transcription toggle on, a run never invokes the
\* transcription collaborator or the naming engine, the derived output name
\* (no explicit output path) is the timestamp fallback, and no transcript
\* artifact is written, transcript persistence on or off.
C24_SkipTranscription ==
    args.no_transcribe =>
        /\ \A i \in 1..Len(events) :
              events[i] \notin {"transcribe_video", "import_whisper", "pip_install",
                                "whisper_transcribe", "generate_smart_filename",
                                "save_transcript"}
        /\ loc.transcript_data = "None"
        /\ loc.smart_name = "None"
        /\ ~fs.transcript_json
        /\ ~fs.transcript_txt
        /\ (loc.output_path # "None" /\ args.output = "None")
              => loc.output_path = "output_dir/edited_timestamp.mp4"
        /\ (loc.output_path # "None" /\ args.output # "None")
              => loc.output_path = args.output

\* A complete run without transcription, persistence on, no explicit output.
C24_Witness ==
    /\ pc = "done"
    /\ exit_status = 0
    /\ args.no_transcribe
    /\ args.save_transcript
    /\ args.output = "None"
    /\ loc.output_path = "output_dir/edited_timestamp.mp4"

\* Transcription ran, transcript persistence is on, the encode succeeded.
TranscriptDue ==
    /\ loc.transcript_data # "None"
    /\ args.save_transcript
    /\ diag.returncode = 0

\* C25 as stated: at the end of a run both transcript artifacts are written if
\* and only if transcription ran, persistence is on and the encode succeeded;
\* they are written only after the encode and never in a run that ends with
\* no-speech or encode failure.
C25_ArtifactsIffDue ==
    /\ pc = "done" => ((fs.transcript_json /\ fs.transcript_txt) <=> TranscriptDue)
    /\ (fs.transcript_json \/ fs.transcript_txt) => Happened("encode")
    /\ (loc.vad_result = "empty" \/ (diag.returncode # -1 /\ diag.returncode # 0))
          => ~fs.transcript_json /\ ~fs.transcript_txt

\* C25, amended: a transcript artifact is written only if transcription ran,
\* persistence is on and the encode succeeded, only after the encode step (by
\* save_transcript, the .json before the .txt), never in a run that ends with
\* no-speech or encode failure; and in a run where those three conditions
\* hold and save_transcript returned, both artifacts are written.
C25_ArtifactsOnlyIfDue ==
    /\ (fs.transcript_json \/ fs.transcript_txt) =>
          /\ TranscriptDue
          /\ Happened("encode")
          /\ Happened("save_transcript")
          /\ fs.output = "complete"
    /\ fs.transcript_txt => fs.transcript_json
    /\ (pc \in {"stats", "done"} /\ TranscriptDue /\ (pc = "done" => ~uncaught \/ Happened("get_duration_output")))
          => fs.transcript_json /\ fs.transcript_txt
    /\ (pc \in {"stats", "done"} /\ TranscriptDue) => Happened("save_transcript")
    /\ Happened("save_transcript") => TranscriptDue
    /\ (loc.vad_result = "empty" \/ (diag.returncode # -1 /\ diag.returncode # 0))
          => ~fs.transcript_json /\ ~fs.transcript_txt

\* A run in which save_transcript raised after writing the .json file only.
C25_Witness ==
    /\ pc = "done"
    /\ TranscriptDue
    /\ uncaught
    /\ fs.transcript_json
    /\ ~fs.transcript_txt

\* A complete run with both artifacts written.
C25_WitnessWritten ==
    /\ pc = "done"
    /\ exit_status = 0
    /\ fs.transcript_json
    /\ fs.transcript_txt

\* C26: the encode collaborator is never invoked with an empty timeline: once
\* process_video is reached the timeline has at least one interval, a
\* non-empty VAD result staying non-empty through merge, pad and force-start.
C26_EncodeTimelineNonEmpty ==
    /\ \A c \in 1..Len(encode_calls) : Len(encode_calls[c].segments) >= 1
    /\ Happened("merge") => Len(loc.vad_segments) >= 1 /\ Len(loc.speech_segments) >= 1
    /\ Happened("process_video") => Len(loc.speech_segments) >= 1
    /\ pc \in {"merge", "pad", "keep_start", "pv_encoder", "pv_build", "pv_tempfile",
               "pv_encode"} => Len(loc.speech_segments) >= 1

\* An encode call with one interval, from a VAD result of two merged into one.
C26_Witness ==
    /\ Len(encode_calls) = 1
    /\ Len(loc.vad_segments) = 2
    /\ Len(encode_calls[1].segments) = 1

\* ------------------------------------------------------------------------
\* Claims about the wiring of the filter graph
\* ------------------------------------------------------------------------
\* The streams of the input file, which no statement of the graph produces.
SourceStreams == {<<"0:v">>, <<"0:a">>}

\* The ports the encoder maps to the output file.
FinalPorts == {<<"outv">>, <<"outa">>}

\* Every port label written or read by a statement of graph g.
PortsOf(g) ==
    UNION {{g[k].outs[j] : j \in 1..Len(g[k].outs)} \cup {g[k].ins[j] : j \in 1..Len(g[k].ins)}
              : k \in 1..Len(g)}

\* The places (statement, position) where graph g writes / reads the port.
Writes(g, port) ==
    {<<k, j>> \in (1..Len(g)) \X (1..(2 * MaxLen)) : j <= Len(g[k].outs) /\ g[k].outs[j] = port}

Reads(g, port) ==
    {<<k, j>> \in (1..Len(g)) \X (1..(2 * MaxLen)) : j <= Len(g[k].ins) /\ g[k].ins[j] = port}

\* The internal ports a graph over n intervals is expected to have.
ExpectedInternalPorts(n, add_transitions) ==
    {<<"v", i>> : i \in 0..(n - 1)} \cup {<<"a", i>> : i \in 0..(n - 1)}
      \cup (IF add_transitions /\ n > 1
            THEN {<<"xv", i>> : i \in 1..(n - 2)} \cup {<<"xa", i>> : i \in 1..(n - 2)}
            ELSE {})

\* C27: the graph built for a timeline of n >= 1 intervals, with cross-fade on
\* or off, is well wired: every internal port ([v i], [a i], [xv i], [xa i]) is
\* produced by exactly one statement and consumed exactly once, no statement
\* consumes a label that no earlier statement produced, and [outv] and [outa]
\* are each produced exactly once and consumed by no statement.
C27_GraphWellWired ==
    (tl_op = "build" /\ Len(tl_in) >= 1) =>
        LET g == tl_graph
            internal == PortsOf(g) \ (SourceStreams \cup FinalPorts)
        IN /\ internal = ExpectedInternalPorts(Len(tl_in), tl_transitions)
           /\ \A port \in internal :
                 /\ Cardinality(Writes(g, port)) = 1
                 /\ Cardinality(Reads(g, port)) = 1
           /\ \A k \in 1..Len(g) : \A j \in 1..Len(g[k].ins) :
                 g[k].ins[j] \notin SourceStreams
                    => \E p \in 1..(k - 1) : p \in Producers(g, g[k].ins[j])
           /\ \A port \in FinalPorts :
                 /\ Cardinality(Writes(g, port)) = 1
                 /\ Reads(g, port) = {}
           /\ \A port \in SourceStreams : Writes(g, port) = {}

\* A cross-fade graph over three intervals, with intermediate chain ports.
C27_Witness ==
    /\ tl_op = "build"
    /\ tl_transitions
    /\ Len(tl_in) = 3
    /\ Cardinality(Writes(tl_graph, <<"xv", 1>>)) = 1
    /\ Cardinality(Reads(tl_graph, <<"xa", 1>>)) = 1

\* A concat graph over three intervals.
C27_WitnessConcat ==
    /\ tl_op = "build"
    /\ ~tl_transitions
    /\ Len(tl_in) = 3
    /\ Cardinality(Reads(tl_graph, <<"a", 2>>)) = 1

=============================================================================
